---- MODULE Spec2Model ----
(***************************************************************************)
(* Frame index and frame boundary scanners of the text trajectory formats. *)
(*                                                                         *)
(* One handle (TextFormat) over one file.  A file is a sequence of lines;  *)
(* a line is abstracted to the class the scanners and parsers tell apart   *)
(* (a record name, a count, a tag, other text).  A byte offset is          *)
(* abstracted to the number of lines before it: the mapping is strictly    *)
(* increasing, so order and equality of offsets are preserved.             *)
(***************************************************************************)
EXTENDS Integers, Sequences, FiniteSets, TLC

\* Longest file, in lines, of a read handle of each format.
MaxLinesPDB == 4
MaxLinesGRO == 5
MaxLinesSDF == 5
MaxLinesMOL2 == 6
\* Longest file of a read handle of a single-frame format (CSSR, LAMMPS Data).
MaxLinesSingle == 5
\* read() is driven while the frame index is shorter than this.
MaxIndex == 3
\* A write handle is driven while its file holds fewer lines than this.
MaxOut == 5
\* Largest explicit step requested by read_step.
MaxStep == 2
\* Largest atom type id of a topology, and the number of bond, angle,
\* dihedral and improper types a topology is given.
MaxAtomType == 1
MaxTypes == 1
\* Largest frame, in atoms, and longest bond list given to guess_molecules.
MaxAtoms == 4
MaxBonds == 3
MaxResidues == 3
MaxPDBAtoms == 53
MaxTER == 1
MaxPartners == 4
\* Longest bond template of a residue.
MaxPairs == 2
\* Most ATOM records, HELIX or SHEET records and TER records of a frame
\* given to the secondary structure reader.
MaxSecAtoms == 3
MaxSecRecords == 2
MaxSecTER == 1
\* Most bonds of a topology given to the constructor of DataTypes; it has
\* one angle less at most.
MaxTopology == 2
\* Most calls of set_warning_callback and send_warning by one thread.
MaxCalls == 2
\* Most lines of a LAMMPS data file after its first line.
MaxDataLines == 6

Formats == {"PDB", "GRO", "SDF", "MOL2"}

\* The formats whose forward() knows one frame only.
SingleFormats == {"CSSR", "LAMMPSData"}

\* Line classes per grammar.
\*  PDB : record names.
\*  GRO : "X" a text line long enough for an atom line, "0"/"1" an integer.
\*  SDF : "X" a text line (a valid atom line), "C" a counts line announcing
\*        one atom and no bond, "$$$$" the molecule terminator.
\*  MOL2: "M"/"A"/"B" the @<TRIPOS>MOLECULE/ATOM/BOND tags, "0" the integer 0.
\*  CSSR: "X" a line every scan() pattern matches, "0"/"1" a line that only
\*        matches the pattern of the count line, announcing 0 or 1 atom.
\*  LAMMPSData: "X" a line a section reader accepts, "?" a line it rejects.
Alphabet(f) ==
    CASE f = "PDB"  -> {"ATOM", "ENDMDL", "END"}
      [] f = "GRO"  -> {"X", "0", "1"}
      [] f = "SDF"  -> {"X", "C", "$$$$"}
      [] f = "MOL2" -> {"M", "A", "B", "0"}
      [] f = "CSSR" -> {"X", "0", "1"}
      [] f = "LAMMPSData" -> {"X", "?"}

MaxLines(f) ==
    CASE f = "PDB"  -> MaxLinesPDB
      [] f = "GRO"  -> MaxLinesGRO
      [] f = "SDF"  -> MaxLinesSDF
      [] f = "MOL2" -> MaxLinesMOL2
      [] f = "CSSR" -> MaxLinesSingle
      [] f = "LAMMPSData" -> MaxLinesSingle

RECURSIVE SeqsUpTo(_, _)
SeqsUpTo(S, n) ==
    IF n = 0 THEN {<<>>}
    ELSE LET shorter == SeqsUpTo(S, n - 1)
         IN  shorter \cup {Append(q, x) : q \in {r \in shorter : Len(r) = n - 1}, x \in S}

NoPos == -1

\* Op applied to the value of v, v being evaluated once
With(v, Op(_)) == CHOOSE y \in {Op(x) : x \in {v}} : TRUE

VARIABLES
    format,            \* the concrete format of the handle
    mode,              \* "r" or "w"
    lines,             \* content of the file
    file,              \* the stream: [pos, eof, fail]
    steps_positions_,  \* the frame index
    eof_found_,        \* the "complete" flag
    models_,           \* PDBFormat::models_
    written_,          \* PDBFormat::written_
    last,              \* the last call on the handle and what it returned
    counted,           \* the value of the last step_count() that returned, or -1
    allok,             \* no call on the handle has failed so far
    datatypes,         \* DataTypes: [bonds_, angles_, dihedrals_, impropers_]
    type_query,        \* the last *_type_id call and the id it returned
    guess,             \* guess_molecules: the frame given and the ids returned
    linker,            \* link_standard_residue_bonds: the residues and the bonds added
    conect,            \* PDB reader: atom_offsets_, the atoms read, the last CONECT
    writer,            \* a frame, what the PDB and GRO writers print for it, and
                       \* what the PDB reader reads back
    secondary,         \* PDB reader: secinfo_, residues_ and the residues of the frame
    topology,          \* the bonds and angles given to the constructor of DataTypes
    sink,              \* warnings.cpp: CALLBACK, its lock, and the threads calling
    lammps             \* LAMMPS data reader: current_section_, the counts, the records read

textvars == <<format, mode, lines, file, steps_positions_, eof_found_, models_,
              written_, last, counted, allok>>

typevars == <<datatypes, type_query>>

\* the state of the components other than the text format handle
morevars == <<secondary, topology, sink, lammps>>

pdbvars == <<linker, conect, writer, morevars>>

auxvars == <<typevars, guess, pdbvars>>

vars == <<textvars, auxvars>>

----------------------------------------------------------------------------
\* The line-oriented stream (TextFile): read one line, seek/tell, end-of-stream.

Good(s) == ~s.fail /\ ~s.eof

\* Reading at the end of the file yields one empty line and sets eofbit;
\* reading when the stream is not good sets failbit and raises FileError.
ReadLine(L, s) ==
    IF ~Good(s) THEN [ok |-> FALSE, line |-> "", s |-> [s EXCEPT !.fail = TRUE]]
    ELSE IF s.pos >= Len(L) THEN [ok |-> TRUE, line |-> "", s |-> [s EXCEPT !.eof = TRUE]]
    ELSE [ok |-> TRUE, line |-> L[s.pos + 1], s |-> [s EXCEPT !.pos = s.pos + 1]]

SkipLine(L, s) == ReadLine(L, s).s

RECURSIVE SkipLines(_, _, _)
SkipLines(L, s, n) ==
    IF n <= 0 THEN [ok |-> ~s.fail, s |-> s]
    ELSE LET r == ReadLine(L, s)
         IN  IF ~r.ok THEN [ok |-> FALSE, s |-> r.s]
             ELSE SkipLines(L, r.s, n - 1)

\* readlines(n): the lines read, or FileError
RECURSIVE ReadLines(_, _, _)
ReadLines(L, s, n) ==
    IF n <= 0 THEN [ok |-> ~s.fail, got |-> <<>>, s |-> s]
    ELSE LET r == ReadLine(L, s)
         IN  IF ~r.ok THEN [ok |-> FALSE, got |-> <<>>, s |-> r.s]
             ELSE LET rest == ReadLines(L, r.s, n - 1)
                  IN  [ok |-> rest.ok, got |-> <<r.line>> \o rest.got, s |-> rest.s]

TellG(s) == IF s.fail THEN NoPos ELSE s.pos

SeekG(s, p) ==
    IF s.fail THEN [s EXCEPT !.eof = FALSE]
    ELSE IF p < 0 THEN [s EXCEPT !.eof = FALSE, !.fail = TRUE]
    ELSE [pos |-> p, eof |-> FALSE, fail |-> FALSE]

Clear(s) == [s EXCEPT !.eof = FALSE, !.fail = FALSE]

FreshStream == [pos |-> 0, eof |-> FALSE, fail |-> FALSE]

----------------------------------------------------------------------------
\* Frame boundary scanners: forward().
\* A result is the offset returned (NoPos for "none"), the exception that
\* left the scanner ("none" when it returned), the stream afterwards, and
\* two observations: `begun` (the count field of a frame had been read when
\* the scanner ended) and `malformed` (a count line was present but was too
\* short or no integer).

FwdNone(s, begun, malformed) ==
    [pos |-> NoPos, thrown |-> "none", s |-> s, begun |-> begun, malformed |-> malformed]

FwdThrow(kind, s, begun) ==
    [pos |-> NoPos, thrown |-> kind, s |-> s, begun |-> begun, malformed |-> FALSE]

FwdAt(p, s, begun) ==
    [pos |-> p, thrown |-> "none", s |-> s, begun |-> begun, malformed |-> FALSE]

\* parse<size_t> of a whole line: the integer, or -1 for an Error
ParseCount(line) ==
    CASE line = "0" -> 0
      [] line = "1" -> 1
      [] OTHER -> -1

\* GROForward raising the parse error of the count line
GROForward_Strict(L, s) ==
    IF s.fail THEN FwdNone(s, FALSE, FALSE)
    ELSE With(ReadLine(L, SkipLine(L, s)), LAMBDA r :
         IF ~r.ok THEN FwdNone(r.s, FALSE, FALSE)
         ELSE IF ParseCount(r.line) < 0
         THEN [FwdThrow("format_error", r.s, FALSE) EXCEPT !.malformed = r.line # ""]
         ELSE With(SkipLines(L, r.s, ParseCount(r.line) + 1), LAMBDA k :
              IF ~k.ok THEN FwdThrow("format_error", k.s, TRUE)
              ELSE FwdAt(TellG(s), k.s, TRUE)))

GROForward(L, s) ==
    IF s.fail THEN FwdNone(s, FALSE, FALSE)
    ELSE With(ReadLine(L, SkipLine(L, s)), LAMBDA r :
         IF ~r.ok THEN FwdNone(r.s, FALSE, FALSE)
         ELSE IF ParseCount(r.line) < 0 THEN FwdNone(r.s, FALSE, r.line # "")
         ELSE With(SkipLines(L, r.s, ParseCount(r.line) + 1), LAMBDA k :
              IF ~k.ok THEN FwdThrow("format_error", k.s, TRUE)
              ELSE FwdAt(TellG(s), k.s, TRUE)))

\* counts_line.length() >= 10
SDFLongEnough(line) == line \in {"X", "C"}

\* natoms, and natoms + nbonds, announced by a counts line (the counts line
\* "C" announces one atom and no bond), or -1 when they are no integers
SDFCounts(line) == IF line = "C" THEN 1 ELSE -1

\* while (!eof) { if (readline() == "$$$$") break; }
RECURSIVE SDFToEnd(_, _)
SDFToEnd(L, s) ==
    IF s.eof THEN [ok |-> TRUE, s |-> s]
    ELSE With(ReadLine(L, s), LAMBDA r :
         IF ~r.ok THEN [ok |-> FALSE, s |-> r.s]
         ELSE IF r.line = "$$$$" THEN [ok |-> TRUE, s |-> r.s]
         ELSE SDFToEnd(L, r.s))

SDFForward(L, s) ==
    IF s.fail THEN FwdNone(s, FALSE, FALSE)
    ELSE With(SkipLines(L, s, 3), LAMBDA j :
         IF ~j.ok THEN FwdNone(j.s, FALSE, FALSE)
         ELSE With(ReadLine(L, j.s), LAMBDA r :
         IF ~r.ok THEN FwdNone(r.s, FALSE, FALSE)
         ELSE IF ~SDFLongEnough(r.line) THEN FwdNone(r.s, FALSE, r.line # "")
         ELSE IF SDFCounts(r.line) < 0 THEN FwdNone(r.s, FALSE, TRUE)
         ELSE With(SkipLines(L, r.s, SDFCounts(r.line)), LAMBDA k :
              IF ~k.ok THEN FwdThrow("format_error", k.s, TRUE)
              ELSE With(SDFToEnd(L, k.s), LAMBDA e :
                   IF ~e.ok THEN FwdThrow("file_error", e.s, TRUE)
                   ELSE FwdAt(TellG(s), e.s, TRUE)))))

\* read_until(file, tag): the offset of the first line starting with tag
RECURSIVE read_until(_, _, _)
read_until(L, s, tag) ==
    IF s.eof THEN [ok |-> FALSE, pos |-> NoPos, s |-> s]
    ELSE With(ReadLine(L, s), LAMBDA r :
         IF ~r.ok THEN [ok |-> FALSE, pos |-> NoPos, s |-> r.s]
         ELSE IF r.line = tag THEN [ok |-> TRUE, pos |-> TellG(s), s |-> r.s]
         ELSE read_until(L, r.s, tag))

\* after the counts line: the ATOM and BOND sections (no bond is announced
\* by a counts line of one field)
MOL2Body(L, s, position, natoms) ==
    With(read_until(L, s, "A"), LAMBDA a :
    IF ~a.ok THEN FwdNone(a.s, TRUE, FALSE)
    ELSE With(SkipLines(L, a.s, natoms), LAMBDA ka :
    IF ~ka.ok THEN FwdNone(ka.s, TRUE, FALSE)
    ELSE With(read_until(L, ka.s, "B"), LAMBDA b :
    IF ~b.ok THEN FwdNone(b.s, TRUE, FALSE)
    ELSE With(SkipLines(L, b.s, 0), LAMBDA kb :
    IF ~kb.ok THEN FwdNone(kb.s, TRUE, FALSE)
    ELSE FwdAt(position, kb.s, TRUE)))))

MOL2Forward(L, s) ==
    IF s.fail \/ s.eof THEN FwdNone(s, FALSE, FALSE)
    ELSE With(read_until(L, s, "M"), LAMBDA m :
         IF ~m.ok THEN FwdNone(m.s, FALSE, FALSE)
         ELSE With(ReadLine(L, SkipLine(L, m.s)), LAMBDA r :
         IF ~r.ok THEN FwdNone(r.s, FALSE, FALSE)
         ELSE IF ParseCount(r.line) < 0 THEN FwdNone(r.s, FALSE, r.line # "")
         ELSE MOL2Body(L, r.s, m.pos, ParseCount(r.line))))

\* line.substr(0, 3) == "END"
StartsWithEND(line) == line \in {"END", "ENDMDL"}

\* catch (const FileError&): handle a missing END record
PDBMissingEND(position, s) ==
    IF position = 0 THEN FwdAt(position, s, FALSE) ELSE FwdNone(s, FALSE, FALSE)

RECURSIVE PDBForwardLoop(_, _, _)
PDBForwardLoop(L, s, position) ==
    With(ReadLine(L, s), LAMBDA r :
    IF ~r.ok THEN PDBMissingEND(position, r.s)
    ELSE IF r.line = "ENDMDL"
         THEN With(ReadLine(L, r.s), LAMBDA next :
              IF ~next.ok THEN PDBMissingEND(position, next.s)
              ELSE IF StartsWithEND(next.line)
                   THEN PDBForwardLoop(L, SeekG(next.s, TellG(r.s)), position)
                   ELSE FwdAt(position, SeekG(next.s, TellG(r.s)), FALSE))
    ELSE IF StartsWithEND(r.line) THEN FwdAt(position, r.s, FALSE)
    ELSE PDBForwardLoop(L, r.s, position))

PDBForward(L, s) ==
    IF s.fail THEN FwdNone(s, FALSE, FALSE)
    ELSE PDBForwardLoop(L, s, TellG(s))

\* CSSRFormat::forward and LAMMPSDataFormat::forward, the same code: an
\* offset at position 0 only, the stream advanced by one line
SingleForward(L, s) ==
    IF TellG(s) # 0 THEN FwdNone(s, FALSE, FALSE)
    ELSE With(SkipLines(L, s, 1), LAMBDA k :
         IF ~k.ok THEN FwdThrow("file_error", k.s, FALSE)
         ELSE FwdAt(0, k.s, FALSE))

forward(f, L, s) ==
    CASE f = "PDB"  -> PDBForward(L, s)
      [] f = "GRO"  -> GROForward(L, s)
      [] f = "SDF"  -> SDFForward(L, s)
      [] f = "MOL2" -> MOL2Forward(L, s)
      [] f = "CSSR" -> SingleForward(L, s)
      [] f = "LAMMPSData" -> SingleForward(L, s)

----------------------------------------------------------------------------
\* Frame parsers: read_next().
\* A frame is abstracted to the extent of the file it was built from and the
\* number of atoms parsed: [from, to, natoms].

NoFrame == [from |-> NoPos, to |-> NoPos, natoms |-> 0]

Parsed(start, s, natoms) ==
    [thrown |-> "none", s |-> s, frame |-> [from |-> start, to |-> s.pos, natoms |-> natoms]]

ParseThrow(kind, s) == [thrown |-> kind, s |-> s, frame |-> NoFrame]

\* get_record(line) == Record::END
IsENDRecord(line) == line = "END"

RECURSIVE PDBReadLoop(_, _, _, _)
PDBReadLoop(L, s, start, natoms) ==
    IF s.eof THEN Parsed(start, s, natoms)
    ELSE With(ReadLine(L, s), LAMBDA r :
         IF ~r.ok THEN ParseThrow("file_error", r.s)
         ELSE IF r.line = "ATOM" THEN PDBReadLoop(L, r.s, start, natoms + 1)
         ELSE IF r.line = "ENDMDL"
              THEN IF r.s.eof THEN Parsed(start, r.s, natoms)
                   ELSE With(ReadLine(L, r.s), LAMBDA next :
                        IF ~next.ok THEN ParseThrow("file_error", next.s)
                        ELSE IF IsENDRecord(next.line)
                             THEN PDBReadLoop(L, SeekG(next.s, TellG(r.s)), start, natoms)
                             ELSE Parsed(start, SeekG(next.s, TellG(r.s)), natoms))
         ELSE IF r.line = "END" THEN Parsed(start, r.s, natoms)
         ELSE PDBReadLoop(L, r.s, start, natoms))

PDBReadNext(L, s) == PDBReadLoop(L, s, TellG(s), 0)

\* line.length() >= 44 for a GRO atom line
GROAtomLine(line) == line = "X"

\* after the number of atoms: the atom lines and the box line
GROBody(L, s, start, natoms) ==
    With(ReadLines(L, s, natoms), LAMBDA atoms :
    IF ~atoms.ok THEN ParseThrow("file_error", atoms.s)
    ELSE IF \E i \in 1..Len(atoms.got) : ~GROAtomLine(atoms.got[i])
         THEN ParseThrow("format_error", atoms.s)
    ELSE With(ReadLine(L, atoms.s), LAMBDA box :
         IF ~box.ok THEN ParseThrow("file_error", box.s)
         ELSE Parsed(start, box.s, natoms)))

GROReadNext(L, s) ==
    With(ReadLine(L, s), LAMBDA c :
    IF ~c.ok THEN ParseThrow("format_error", c.s)
    ELSE With(ReadLine(L, c.s), LAMBDA n :
         IF ~n.ok THEN ParseThrow("format_error", n.s)
         ELSE IF ParseCount(n.line) < 0 THEN ParseThrow("format_error", n.s)
         ELSE GROBody(L, n.s, TellG(s), ParseCount(n.line))))

\* an SDF atom line: long enough and three coordinates that parse
SDFAtomLine(line) == line = "X"

\* the atom property block: up to "$$$$" or the end of the file
RECURSIVE SDFProperties(_, _)
SDFProperties(L, s) ==
    With(ReadLine(L, s), LAMBDA r :
    IF ~r.ok THEN r.s
    ELSE IF r.line = "$$$$" THEN r.s
    ELSE SDFProperties(L, r.s))

\* after the counts line: the atom lines, then the property block
SDFBody(L, s, start, natoms) ==
    With(ReadLines(L, s, natoms), LAMBDA atoms :
    IF ~atoms.ok THEN ParseThrow("format_error", atoms.s)
    ELSE IF \E i \in 1..Len(atoms.got) : ~SDFAtomLine(atoms.got[i])
         THEN ParseThrow("format_error", atoms.s)
    ELSE Parsed(start, SDFProperties(L, atoms.s), natoms))

SDFReadNext(L, s) ==
    With(ReadLine(L, s), LAMBDA name :
    IF ~name.ok THEN ParseThrow("format_error", name.s)
    ELSE With(ReadLine(L, SkipLine(L, SkipLine(L, name.s))), LAMBDA counts :
         IF ~counts.ok THEN ParseThrow("format_error", counts.s)
         ELSE IF SDFCounts(counts.line) < 0 THEN ParseThrow("format_error", counts.s)
         ELSE SDFBody(L, counts.s, TellG(s), SDFCounts(counts.line))))

\* the sections of a MOL2 molecule, up to the next @<TRIPOS>MOLECULE
RECURSIVE MOL2Sections(_, _, _)
MOL2Sections(L, s, start) ==
    IF s.eof THEN Parsed(start, s, 0)
    ELSE With(ReadLine(L, s), LAMBDA r :
         IF ~r.ok THEN ParseThrow("file_error", r.s)
         ELSE IF r.line = "M" THEN Parsed(start, SeekG(r.s, TellG(s)), 0)
         ELSE MOL2Sections(L, r.s, start))

\* after the name line: the counts line, the two type lines, the sections
MOL2Header(L, s, start) ==
    With(ReadLine(L, s), LAMBDA counts :
    IF ~counts.ok THEN ParseThrow("file_error", counts.s)
    ELSE IF ParseCount(counts.line) < 0 THEN ParseThrow("error", counts.s)
    ELSE With(ReadLine(L, SkipLine(L, counts.s)), LAMBDA charges :
         IF ~charges.ok THEN ParseThrow("file_error", charges.s)
         ELSE MOL2Sections(L, charges.s, start)))

MOL2ReadNext(L, s) ==
    With(ReadLine(L, s), LAMBDA tag :
    IF ~tag.ok THEN ParseThrow("file_error", tag.s)
    ELSE IF tag.line # "M" THEN ParseThrow("format_error", tag.s)
    ELSE With(ReadLine(L, tag.s), LAMBDA name :
         IF ~name.ok THEN ParseThrow("file_error", name.s)
         ELSE MOL2Header(L, name.s, TellG(s))))

\* a line the scan() pattern of a CSSR cell line or atom line matches
CSSRTextLine(line) == line = "X"

\* the count line of a CSSR file: "%zu %d"
CSSRCount(line) ==
    CASE line = "0" -> 0
      [] line = "1" -> 1
      [] line = "X" -> 1
      [] OTHER -> -1

\* after the count line: the title line and the atom lines
CSSRBody(L, s, natoms) ==
    With(SkipLines(L, s, 1), LAMBDA title :
    IF ~title.ok THEN ParseThrow("file_error", title.s)
    ELSE With(ReadLines(L, title.s, natoms), LAMBDA atoms :
         IF ~atoms.ok THEN ParseThrow("file_error", atoms.s)
         ELSE IF \E i \in 1..Len(atoms.got) : ~CSSRTextLine(atoms.got[i])
              THEN ParseThrow("format_error", atoms.s)
         ELSE Parsed(0, atoms.s, natoms)))

CSSRReadNext(L, s) ==
    IF TellG(s) # 0 THEN ParseThrow("format_error", s)
    ELSE With(ReadLines(L, s, 2), LAMBDA cell :
         IF ~cell.ok THEN ParseThrow("file_error", cell.s)
         ELSE IF \E i \in 1..2 : ~CSSRTextLine(cell.got[i])
              THEN ParseThrow("format_error", cell.s)
         ELSE With(ReadLine(L, cell.s), LAMBDA count :
              IF ~count.ok THEN ParseThrow("file_error", count.s)
              ELSE IF CSSRCount(count.line) < 0 THEN ParseThrow("format_error", count.s)
              ELSE CSSRBody(L, count.s, CSSRCount(count.line))))

\* while (!file_->eof()) { <read the current section> }
RECURSIVE LAMMPSSections(_, _)
LAMMPSSections(L, s) ==
    IF s.eof THEN Parsed(0, s, 0)
    ELSE With(ReadLine(L, s), LAMBDA r :
         IF ~r.ok THEN ParseThrow("file_error", r.s)
         ELSE IF r.line = "?" THEN ParseThrow("format_error", r.s)
         ELSE LAMMPSSections(L, r.s))

LAMMPSReadNext(L, s) ==
    IF TellG(s) # 0 THEN ParseThrow("format_error", s)
    ELSE With(ReadLine(L, s), LAMBDA comment :
         IF ~comment.ok THEN ParseThrow("file_error", comment.s)
         ELSE LAMMPSSections(L, comment.s))

read_next(f, L, s) ==
    CASE f = "PDB"  -> PDBReadNext(L, s)
      [] f = "GRO"  -> GROReadNext(L, s)
      [] f = "SDF"  -> SDFReadNext(L, s)
      [] f = "MOL2" -> MOL2ReadNext(L, s)
      [] f = "CSSR" -> CSSRReadNext(L, s)
      [] f = "LAMMPSData" -> LAMMPSReadNext(L, s)

----------------------------------------------------------------------------
\* TextFormat: the frame index and the calls of a handle.
\* A handle h is [file, steps, eof_found].

\* `!file_` in scan_all tests the owning pointer of the stream, which is
\* never null once the handle is constructed.
FileIsNull == FALSE

ScanResult(h, thrown, nfwd, fw, io) ==
    [h |-> h, thrown |-> thrown, nfwd |-> nfwd,
     begun_none |-> (fw.thrown = "none" /\ fw.pos = NoPos /\ fw.begun),
     begun_cut  |-> (fw.thrown # "none" /\ fw.begun),
     malformed  |-> fw.malformed,
     io |-> io]

NoForward == FwdNone(FreshStream, FALSE, FALSE)

\* while (!file_->eof()) { position = forward(); ... push_back(position); }
\* `io`: some scanner call returned an offset with the stream in error state
RECURSIVE ScanLoop(_, _, _, _, _, _)
ScanLoop(f, L, h, nfwd, lastfw, io) ==
    IF h.file.eof THEN ScanResult(h, "none", nfwd, lastfw, io)
    ELSE With(forward(f, L, h.file), LAMBDA fw :
         With([h EXCEPT !.file = fw.s], LAMBDA moved :
             IF fw.thrown # "none" THEN ScanResult(moved, fw.thrown, nfwd + 1, fw, io)
             ELSE IF fw.pos = NoPos THEN ScanResult(moved, "none", nfwd + 1, fw, io)
             ELSE IF FileIsNull THEN ScanResult(moved, "format_error", nfwd + 1, fw, TRUE)
             ELSE ScanLoop(f, L, [moved EXCEPT !.steps = Append(@, fw.pos)],
                           nfwd + 1, fw, io \/ fw.s.fail)))

\* ScanDone without the final seekg: the cursor stays where the scan ended
ScanDone_NoRestore(before, loop) ==
    [loop EXCEPT !.h = [loop.h EXCEPT !.eof_found = TRUE, !.file = Clear(loop.h.file)]]

\* the end of scan_all: set the flag, clear the stream, put the cursor back
ScanDone(before, loop) ==
    LET g == loop.h
        target == IF before = 0 /\ Len(g.steps) > 0 THEN g.steps[1] ELSE before
    IN  [loop EXCEPT !.h = [g EXCEPT !.eof_found = TRUE,
                                     !.file = SeekG(Clear(g.file), target)]]

NoScan(h) == ScanResult(h, "none", 0, NoForward, FALSE)

\* scan_all without the early return on eof_found_
scan_all_Rescans(f, L, h) ==
    With(ScanLoop(f, L, h, 0, NoForward, FALSE), LAMBDA loop :
    IF loop.thrown # "none" THEN loop
    ELSE ScanDone(TellG(h.file), loop))

scan_all(f, L, h) ==
    IF h.eof_found THEN NoScan(h)
    ELSE With(ScanLoop(f, L, h, 0, NoForward, FALSE), LAMBDA loop :
         IF loop.thrown # "none" THEN loop
         ELSE ScanDone(TellG(h.file), loop))

\* The outcome of a call: the handle afterwards, the exception, the frame.
Outcome(h, thrown, what, max, frame, scan) ==
    [h |-> h, thrown |-> thrown, what |-> what, max |-> max, frame |-> frame,
     nfwd |-> scan.nfwd, begun_none |-> scan.begun_none, begun_cut |-> scan.begun_cut,
     malformed |-> scan.malformed, io |-> scan.io]

\* file_->seekg(steps_positions_[step]); read_next(frame);
SeekAndParse(f, L, g, step, scan) ==
    With(read_next(f, L, SeekG(g.file, g.steps[step + 1])), LAMBDA parse :
    Outcome([g EXCEPT !.file = parse.s], parse.thrown,
            IF parse.thrown = "none" THEN "" ELSE "parse", -1, parse.frame, scan))

\* StepOrFail reporting the index length as the maximal valid index
StepOrFail_ReportsLen(f, L, step, scan) ==
    IF scan.thrown # "none"
    THEN Outcome(scan.h, scan.thrown, "scan", -1, NoFrame, scan)
    ELSE IF step >= Len(scan.h.steps)
    THEN IF Len(scan.h.steps) = 0
         THEN Outcome(scan.h, "file_error", "no_step", -1, NoFrame, scan)
         ELSE Outcome(scan.h, "file_error", "max_step", Len(scan.h.steps), NoFrame, scan)
    ELSE SeekAndParse(f, L, scan.h, step, scan)

\* read_step once the index was scanned, or was long enough
StepOrFail(f, L, step, scan) ==
    IF scan.thrown # "none"
    THEN Outcome(scan.h, scan.thrown, "scan", -1, NoFrame, scan)
    ELSE IF step >= Len(scan.h.steps)
    THEN IF Len(scan.h.steps) = 0
         THEN Outcome(scan.h, "file_error", "no_step", -1, NoFrame, scan)
         ELSE Outcome(scan.h, "file_error", "max_step", Len(scan.h.steps) - 1, NoFrame, scan)
    ELSE SeekAndParse(f, L, scan.h, step, scan)

read_step(f, L, h, step) ==
    StepOrFail(f, L, step, IF step >= Len(h.steps) THEN scan_all(f, L, h) ELSE NoScan(h))

read(f, L, h) ==
    With(read_next(f, L, h.file), LAMBDA parse :
    IF parse.thrown # "none"
    THEN Outcome([h EXCEPT !.file = parse.s], parse.thrown, "parse", -1, NoFrame, NoScan(h))
    ELSE Outcome([h EXCEPT !.file = parse.s, !.steps = Append(@, TellG(h.file))],
                 "none", "", -1, parse.frame, NoScan(h)))

nsteps(f, L, h) ==
    With(scan_all(f, L, h), LAMBDA scan :
    Outcome(scan.h, scan.thrown, IF scan.thrown # "none" THEN "scan" ELSE "",
            -1, NoFrame, scan))

----------------------------------------------------------------------------
\* PDBFormat::write_next on a write handle.  A frame to write is
\* [natoms, bigcell, bigpos]: its size, whether a cell length and whether an
\* atomic position is too large for its column.

WFrames == [natoms : 0..1, bigcell : BOOLEAN, bigpos : BOOLEAN]

\* std::to_string / fmt "{}" of a natural number
RECURSIVE Decimal(_)
Decimal(n) ==
    IF n < 10 THEN <<"0", "1", "2", "3", "4", "5", "6", "7", "8", "9">>[n + 1]
    ELSE Decimal(n \div 10) \o Decimal(n % 10)

\* fmt "{:>w}": s aligned to the right in w columns
RECURSIVE PadLeft(_, _)
PadLeft(s, w) == IF Len(s) >= w THEN s ELSE PadLeft(" " \o s, w)

\* "MODEL {:>4}"
ModelRecord(model) == "MODEL " \o PadLeft(Decimal(model), 4)

\* the records printed before write_next returns or throws, models_ + 1
\* being `model`
PDBWritten(fr, model) ==
    IF fr.bigcell THEN <<ModelRecord(model)>>
    ELSE IF fr.natoms > 0 /\ fr.bigpos THEN <<ModelRecord(model), "CRYST1">>
    ELSE <<ModelRecord(model), "CRYST1">> \o [i \in 1..fr.natoms |-> "HETATM"]
            \o <<"ENDMDL">>

\* check_values_size throws for the cell or for a position
PDBWriteThrows(fr) == fr.bigcell \/ (fr.natoms > 0 /\ fr.bigpos)

----------------------------------------------------------------------------
\* LAMMPS Data: canonical bond, angle, dihedral and improper types and their
\* ids (DataTypes).  An atom type id is a number in 0..MaxAtomType.

AtomTypes == 0..MaxAtomType

Min2(a, b) == IF a < b THEN a ELSE b

Max2(a, b) == IF a < b THEN b ELSE a

normalize_bond_type(i, j) == IF i < j THEN <<i, j>> ELSE <<j, i>>

\* normalize_angle_type keeping the order of the ends
normalize_angle_type_AsGiven(i, j, k) == <<i, j, k>>

normalize_angle_type(i, j, k) == IF i < k THEN <<i, j, k>> ELSE <<k, j, i>>

normalize_dihedral_type(i, j, k, m) ==
    IF Max2(i, j) = Max2(k, m)
    THEN IF Min2(i, j) < Min2(k, m) THEN <<i, j, k, m>> ELSE <<m, k, j, i>>
    ELSE IF Max2(i, j) < Max2(k, m) THEN <<i, j, k, m>>
    ELSE <<m, k, j, i>>

\* std::sort of three values
Sort3(a, b, c) ==
    <<Min2(a, Min2(b, c)),
      a + b + c - Min2(a, Min2(b, c)) - Max2(a, Max2(b, c)),
      Max2(a, Max2(b, c))>>

normalize_improper_type(i, j, k, m) ==
    <<Sort3(i, k, m)[1], j, Sort3(i, k, m)[2], Sort3(i, k, m)[3]>>

\* operator< of std::tuple: lexicographic
RECURSIVE TupleLess(_, _)
TupleLess(a, b) ==
    IF a = <<>> \/ b = <<>> THEN b # <<>>
    ELSE IF a[1] # b[1] THEN a[1] < b[1]
    ELSE TupleLess(Tail(a), Tail(b))

\* sorted_set::find and the distance from begin(): the id, or -1 when the
\* type is not found and the lookup throws
FindId_FromEnd(set, type) ==
    IF type \in set THEN Cardinality({x \in set : TupleLess(type, x)}) ELSE -1

FindId(set, type) ==
    IF type \in set THEN Cardinality({x \in set : TupleLess(x, type)}) ELSE -1

bond_type_id(d, i, j) == FindId(d.bonds_, normalize_bond_type(i, j))

angle_type_id(d, i, j, k) == FindId(d.angles_, normalize_angle_type(i, j, k))

dihedral_type_id(d, i, j, k, m) == FindId(d.dihedrals_, normalize_dihedral_type(i, j, k, m))

improper_type_id(d, i, j, k, m) == FindId(d.impropers_, normalize_improper_type(i, j, k, m))

\* the loops of the constructor over the bonds and over the angles of the
\* topology, each given by the type ids of its atoms
RECURSIVE InsertBonds(_, _)
InsertBonds(set, bonds) ==
    IF bonds = <<>> THEN set
    ELSE InsertBonds(set \cup {normalize_bond_type(Head(bonds)[1], Head(bonds)[2])},
                     Tail(bonds))

RECURSIVE InsertAngles(_, _)
InsertAngles(set, angles) ==
    IF angles = <<>> THEN set
    ELSE InsertAngles(set \cup {normalize_angle_type(Head(angles)[1], Head(angles)[2],
                                                     Head(angles)[3])},
                      Tail(angles))

\* DataTypes::DataTypes of a topology with bonds and angles
DataTypesOf(topo) ==
    [bonds_ |-> InsertBonds({}, topo.bonds), angles_ |-> InsertAngles({}, topo.angles),
     dihedrals_ |-> {}, impropers_ |-> {}]

NoTypes == [bonds_ |-> {}, angles_ |-> {}, dihedrals_ |-> {}, impropers_ |-> {}]

NoQuery == [kind |-> "none", args |-> <<>>, id |-> -1]

TypesIdle == datatypes = NoTypes /\ type_query = NoQuery

NTypes(d) ==
    Cardinality(d.bonds_) + Cardinality(d.angles_)
        + Cardinality(d.dihedrals_) + Cardinality(d.impropers_)

\* guess_molecules(frame).  Atom i of the frame is entry i + 1 of molids.

\* molids.push_back(i) for every atom
OwnMolecule(natoms) == [i \in 1..natoms |-> i - 1]

\* one bond merging only the molecule ids of its two atoms
MergeBond_OnlyEnds(molids, bond) ==
    LET mi == molids[bond[1] + 1]
        mj == molids[bond[2] + 1]
    IN  [molids EXCEPT ![bond[1] + 1] = Min2(mi, mj), ![bond[2] + 1] = Min2(mi, mj)]

\* one bond: merge the bigger molid in the smaller one
MergeBond(molids, bond) ==
    LET mi == molids[bond[1] + 1]
        mj == molids[bond[2] + 1]
    IN  [x \in DOMAIN molids |-> IF molids[x] = Max2(mi, mj) THEN Min2(mi, mj) ELSE molids[x]]

RECURSIVE MergeAll(_, _)
MergeAll(molids, bonds) ==
    IF bonds = <<>> THEN molids
    ELSE MergeAll(MergeBond(molids, Head(bonds)), Tail(bonds))

\* position of x in the sequence q, from 0
RECURSIVE IndexOf(_, _)
IndexOf(q, x) == IF Head(q) = x THEN 0 ELSE 1 + IndexOf(Tail(q), x)

\* make the molids consecutive: `seen` holds the ids met so far, in order
RECURSIVE Relabel(_, _, _)
Relabel(molids, seen, out) ==
    IF molids = <<>> THEN out
    ELSE IF \E k \in 1..Len(seen) : seen[k] = Head(molids)
         THEN Relabel(Tail(molids), seen, Append(out, IndexOf(seen, Head(molids))))
         ELSE Relabel(Tail(molids), Append(seen, Head(molids)), Append(out, Len(seen)))

guess_molecules(natoms, bonds) ==
    Relabel(MergeAll(OwnMolecule(natoms), bonds), <<>>, <<>>)

\* the frames given: natoms atoms and a list of bonds between two of them
BondsOf(natoms) == {b \in (0..natoms - 1) \X (0..natoms - 1) : b[1] # b[2]}

GuessIdle == guess = [natoms |-> 0, bonds |-> <<>>, done |-> FALSE, molids |-> <<>>]

----------------------------------------------------------------------------
\* PDBFormat::link_standard_residue_bonds: the bonds between one residue and
\* the next along a peptide or nucleic chain.

\* the atom names the inter-residue part looks up
BackboneNames == <<"N", "C", "O3'", "P">>

\* the numeric ids of the residues given
ResIds == {5, 6, 7, 9}

AtomSets == {{}, {"N", "C"}, {"O3'", "P"}, {"O3'"}, {"P"}, {"N", "C", "O3'", "P"}}

\* a residue: its optional id, the atoms it holds, whether
\* PDBConnectivity::find knows its name, and the bond template found for it
Residues ==
    [id : {<<i>> : i \in ResIds}, atoms : AtomSets, known : {TRUE}, table : {<<>>}]
        \cup {[id |-> <<>>, atoms |-> {"N", "C"}, known |-> TRUE, table |-> <<>>],
              [id |-> <<6>>, atoms |-> {"N", "C"}, known |-> FALSE, table |-> <<>>]}

\* the atom names the intra-residue part looks up besides the backbone ones
TemplateNames == <<"HO5'", "O5'", "C5'", "CA", "OXT", "H", "OP1">>

\* the pairs of atom names a bond template can hold
TemplatePairs ==
    {<<"O5'", "C5'">>, <<"P", "O5'">>, <<"C5'", "H">>, <<"CA", "OXT">>,
     <<"OP1", "CA">>, <<"CA", "C5'">>}

TemplateAtoms == {"P"} \cup {TemplateNames[k] : k \in 1..Len(TemplateNames)}

\* a residue with a bond template of at most MaxPairs pairs
TemplateResidues ==
    [id : {<<6>>}, atoms : SUBSET TemplateAtoms, known : {TRUE},
     table : SeqsUpTo(TemplatePairs, MaxPairs)]

AtomNames == BackboneNames \o TemplateNames

\* the frame index of the atom `name` of the p-th residue: each residue
\* owns Len(AtomNames) consecutive indices
AtomIndex(p, name) ==
    Len(AtomNames) * (p - 1)
        + (CHOOSE k \in 1..Len(AtomNames) : AtomNames[k] = name) - 1

ResidueOf(index) == (index \div Len(AtomNames)) + 1

NameOf(index) == AtomNames[(index % Len(AtomNames)) + 1]

\* the locals of the function before the loop, with the bonds added
LinkStart ==
    [link_previous_peptide |-> FALSE, link_previous_nucleic |-> FALSE,
     previous_residue_id |-> 0, previous_carboxylic_id |-> 0,
     bonds |-> <<>>, thrown |-> FALSE, warnings |-> <<>>]

LinkPeptide(st, r, p) ==
    IF st.link_previous_peptide /\ "N" \in r.atoms
            /\ r.id[1] = st.previous_residue_id + 1
    THEN [st EXCEPT !.link_previous_peptide = FALSE,
                    !.bonds = Append(@, <<st.previous_carboxylic_id, AtomIndex(p, "N")>>)]
    ELSE st

TrackCarboxylic(st, r, p) ==
    IF "C" \in r.atoms
    THEN [st EXCEPT !.link_previous_peptide = TRUE,
                    !.previous_carboxylic_id = AtomIndex(p, "C"),
                    !.previous_residue_id = r.id[1]]
    ELSE st

\* three_prime_oxygen->second: the index of the O3' of the current residue;
\* when the residue has none, the iterator is end() and the value read is
\* indeterminate: any atom of the frame, or an index add_bond rejects
ThreePrimeOxygenSecond(st, r, p, natoms) ==
    IF "O3'" \in r.atoms THEN {AtomIndex(p, "O3'")}
    ELSE ((0..natoms - 1) \ {st.previous_carboxylic_id}) \cup {natoms}

LinkNucleic(st, r, p, natoms) ==
    IF st.link_previous_nucleic /\ "P" \in r.atoms
            /\ r.id[1] = st.previous_residue_id + 1
    THEN {IF j < natoms
          THEN [st EXCEPT !.link_previous_nucleic = FALSE,
                          !.bonds = Append(@, <<st.previous_carboxylic_id, j>>)]
          ELSE [st EXCEPT !.link_previous_nucleic = FALSE, !.thrown = TRUE]
            : j \in ThreePrimeOxygenSecond(st, r, p, natoms)}
    ELSE {st}

TrackThreePrime(st, r, p) ==
    IF "O3'" \in r.atoms
    THEN [st EXCEPT !.link_previous_nucleic = TRUE,
                    !.previous_carboxylic_id = AtomIndex(p, "O3'"),
                    !.previous_residue_id = r.id[1]]
    ELSE st

\* atom_name_to_index: the names of the atoms of the p-th residue, each
\* with its frame index
AtomNameToIndex(r, p) == [name \in r.atoms |-> AtomIndex(p, name)]

\* std::map::operator[]: the map after the lookup of `name`, which is
\* inserted with the value 0 when the map lacks it
Subscript(map, name) ==
    IF name \in DOMAIN map THEN map
    ELSE [n \in DOMAIN map \cup {name} |-> IF n = name THEN 0 ELSE map[n]]

\* the HO5' special case: the locals and the map after it
LinkHydroxyl(st, map) ==
    IF "HO5'" \in DOMAIN map
    THEN With(Subscript(Subscript(map, "HO5'"), "O5'"),
              LAMBDA m : [st |-> [st EXCEPT !.bonds = Append(@, <<m["HO5'"], m["O5'"]>>)],
                          map |-> m])
    ELSE [st |-> st, map |-> map]

\* the names whose absence from a residue is not reported
ExpectedOptional(name) ==
    \/ SubSeq(name, 1, 1) = "H"
    \/ name = "OXT"
    \/ SubSeq(name, 1, 1) = "P"
    \/ (Len(name) >= 2 /\ SubSeq(name, 1, 2) = "OP")

\* the warning about the atom `name` the p-th residue lacks
Unexpected(st, p, name) ==
    IF ExpectedOptional(name) THEN st
    ELSE [st EXCEPT !.warnings = Append(@, <<p, name>>)]

\* one iteration of the loop over the pairs of the template
LinkPair(st, map, p, link) ==
    IF link[1] \notin DOMAIN map THEN Unexpected(st, p, link[1])
    ELSE IF link[2] \notin DOMAIN map THEN Unexpected(st, p, link[2])
    ELSE [st EXCEPT !.bonds = Append(@, <<map[link[1]], map[link[2]]>>)]

RECURSIVE LinkTemplate(_, _, _, _, _)
LinkTemplate(st, map, p, table, k) ==
    IF k > Len(table) THEN st
    ELSE LinkTemplate(LinkPair(st, map, p, table[k]), map, p, table, k + 1)

\* the intra-residue part of one iteration: the special case, then the
\* template
LinkIntra(st, r, p) ==
    With(LinkHydroxyl(st, AtomNameToIndex(r, p)),
         LAMBDA h : LinkTemplate(h.st, h.map, p, r.table, 1))

\* one iteration of the loop over the residues: the states it can end in
LinkResidue(st, r, p, natoms) ==
    IF ~r.known THEN {st}
    ELSE IF r.id = <<>> THEN {[st EXCEPT !.warnings = Append(@, <<p, "">>)]}
    ELSE {IF t.thrown THEN t ELSE LinkIntra(TrackThreePrime(t, r, p), r, p)
            : t \in LinkNucleic(TrackCarboxylic(LinkPeptide(st, r, p), r, p), r, p, natoms)}

RECURSIVE LinkLoop(_, _, _)
LinkLoop(st, residues, p) ==
    IF p > Len(residues) \/ st.thrown THEN {st}
    ELSE UNION {LinkLoop(t, residues, p + 1)
                  : t \in LinkResidue(st, residues[p], p,
                                      Len(AtomNames) * Len(residues))}

link_standard_residue_bonds(residues) == LinkLoop(LinkStart, residues, 1)

LinkerIdle ==
    linker = [residues |-> <<>>, done |-> FALSE, bonds |-> <<>>, thrown |-> FALSE,
              warnings |-> <<>>]

----------------------------------------------------------------------------
\* The PDB reader's atom_offsets_ table and the resolution of the atom ids
\* of a CONECT record (read_ATOM, Record::TER, read_CONECT).
\* A size_t result below zero stands for the value 2^64 more: the
\* subtraction wraps around.

\* the serial number of the first record of the file
FirstSerials == {1, 2}

\* std::lower_bound: the number of entries skipped by the binary search
\* for the first entry not less than val in offsets[first + 1 .. first + len]
RECURSIVE LowerBoundFrom(_, _, _, _)
LowerBoundFrom(offsets, val, first, len) ==
    IF len <= 0 THEN first
    ELSE IF offsets[first + (len \div 2) + 1] < val
         THEN LowerBoundFrom(offsets, val, first + (len \div 2) + 1, len - (len \div 2) - 1)
         ELSE LowerBoundFrom(offsets, val, first, len \div 2)

LowerBound_AtOrBefore(offsets, val) ==
    LowerBoundFrom(offsets, val + 1, 0, Len(offsets))

LowerBound(offsets, val) ==
    LowerBoundFrom(offsets, val, 0, Len(offsets))

\* atom_offsets_.front(); on an empty table the value read is indeterminate
Front(offsets) ==
    IF offsets = <<>> THEN {0, 1} ELSE {offsets[1]}

\* read_index: the indexes the field x (below zero: not a number) can
\* resolve to, or the format error
read_index(offsets, x) ==
    IF x < 0 THEN {[thrown |-> "format_error", index |-> 0]}
    ELSE {[thrown |-> "none", index |-> x - LowerBound(offsets, x) - f]
            : f \in Front(offsets)}

\* read_ATOM, the part that sets the initial offset
InitialOffset(offsets, serial) ==
    IF offsets # <<>> THEN offsets
    ELSE IF serial <= 0 THEN <<0>> ELSE <<serial - 1>>

NoConect == [x |-> -1, y |-> -1, z |-> -1, thrown |-> "", i |-> -1, bonds |-> <<>>,
             warned |-> FALSE]

\* add_bond of read_CONECT: the bond is kept when both indexes are atoms of
\* the frame, and dropped with a warning otherwise
InFrame_UpToSize(index, natoms) == index >= 0 /\ index <= natoms

InFrame(index, natoms) == index >= 0 /\ index < natoms

AddConectBond(acc, i, j, natoms) ==
    IF InFrame(i, natoms) /\ InFrame(j, natoms)
    THEN [acc EXCEPT !.bonds = Append(@, <<i, j>>)]
    ELSE [acc EXCEPT !.warned = TRUE]

\* the fields of the record after the first: up to four bonded atoms
RECURSIVE ReadPartners(_, _, _, _, _)
ReadPartners(offsets, natoms, fields, k, acc) ==
    IF k > Len(fields) \/ k > 5 THEN {acc}
    ELSE UNION {IF j.thrown # "none" THEN {[acc EXCEPT !.thrown = j.thrown]}
                ELSE ReadPartners(offsets, natoms, fields, k + 1,
                                  AddConectBond(acc, acc.i, j.index, natoms))
                  : j \in read_index(offsets, fields[k])}

\* read_CONECT of a record with the given fields: the atom and the atoms
\* bonded to it
read_CONECT(offsets, natoms, fields) ==
    UNION {IF i.thrown # "none"
           THEN {[thrown |-> i.thrown, i |-> i.index, bonds |-> <<>>, warned |-> FALSE]}
           ELSE ReadPartners(offsets, natoms, fields, 2,
                             [thrown |-> "none", i |-> i.index, bonds |-> <<>>,
                              warned |-> FALSE])
             : i \in read_index(offsets, fields[1])}

ConectIdle ==
    conect = [atom_offsets_ |-> <<>>, natoms |-> 0, ids |-> <<>>, next |-> 0,
              after_ter |-> FALSE, nter |-> 0, done |-> FALSE, query |-> NoConect]

----------------------------------------------------------------------------
\* The atom serial numbers and the CONECT records of PDBFormat::write_next,
\* the serial numbers of GROFormat::write_next, and the frame read back from
\* what the PDB writer printed.  A frame is [natoms, bonds]; a bond is a
\* pair <<i, j>> with i < j.

\* the largest number of five digits
MaxSerial == 99999

\* the field "*****"
Stars == -1

to_pdb_index(i) ==
    [text   |-> IF i + 1 > MaxSerial THEN Stars ELSE i + 1,
     warned |-> i + 1 > MaxSerial /\ i + 1 = MaxSerial]

to_gro_index(i) ==
    [text   |-> IF i >= MaxSerial THEN Stars ELSE i + 1,
     warned |-> i >= MaxSerial /\ i = MaxSerial]

\* frame.topology().bonds(): the bonds in ascending order
RECURSIVE SortedBonds(_)
SortedBonds(S) ==
    IF S = {} THEN <<>>
    ELSE With(CHOOSE b \in S : \A c \in S \ {b} : TupleLess(b, c),
              LAMBDA m : <<m>> \o SortedBonds(S \ {m}))

\* the bonds the writer does not remove
KeepsBond(bond) == ~(bond[1] > MaxSerial \/ bond[2] > MaxSerial)

\* connect[i]: the atoms bonded to i, in the order of the bonds
RECURSIVE Connect(_, _)
Connect(kept, i) ==
    IF kept = <<>> THEN <<>>
    ELSE (IF Head(kept)[1] = i THEN <<Head(kept)[2]>>
          ELSE IF Head(kept)[2] = i THEN <<Head(kept)[1]>>
          ELSE <<>>) \o Connect(Tail(kept), i)

\* the atoms printed on the CONECT record number conect_line of atom i
ConectLine(i, connect, conect_line) ==
    <<i>> \o [j \in 1..(Min2(Len(connect), 4 * (conect_line + 1)) - 4 * conect_line)
                |-> connect[4 * conect_line + j]]

ConectLinesOf(i, connect) ==
    [l \in 1..((Len(connect) \div 4) + 1) |-> ConectLine(i, connect, l - 1)]

\* the CONECT records, for the atoms with connections in ascending order
RECURSIVE ConectLines(_, _)
ConectLines(kept, atoms) ==
    IF atoms = {} THEN <<>>
    ELSE With(CHOOSE a \in atoms : \A b \in atoms : a <= b,
              LAMBDA i : ConectLinesOf(i, Connect(kept, i))
                            \o ConectLines(kept, atoms \ {i}))

BondedAtoms(kept) == {kept[k][1] : k \in DOMAIN kept} \cup {kept[k][2] : k \in DOMAIN kept}

\* the positions <<record, field>> of the CONECT records
ConectFields(recs) == {p \in (DOMAIN recs) \X (1..5) : p[2] <= Len(recs[p[1]])}

\* the serial numbers and the CONECT records of write_next, with the number
\* of diagnostics sent
PDBWriteAtoms(natoms, sorted, recs) ==
    [done     |-> TRUE,
     atoms    |-> natoms,
     first    |-> to_pdb_index(0).text,
     stars    |-> \/ \E i \in 0..natoms - 1 : to_pdb_index(i).text = Stars
                  \/ \E p \in ConectFields(recs) :
                         to_pdb_index(recs[p[1]][p[2]]).text = Stars,
     conect   |-> [l \in DOMAIN recs |->
                     [k \in DOMAIN recs[l] |-> to_pdb_index(recs[l][k]).text]],
     warnings |-> Cardinality({i \in 0..natoms - 1 : to_pdb_index(i).warned})
                    + Cardinality({k \in DOMAIN sorted : ~KeepsBond(sorted[k])})
                    + Cardinality({p \in ConectFields(recs) :
                                      to_pdb_index(recs[p[1]][p[2]]).warned})]

PDBWriteBonds(natoms, sorted, kept) ==
    PDBWriteAtoms(natoms, sorted, ConectLines(kept, BondedAtoms(kept)))

PDBWriteFrame(frame) ==
    With(SortedBonds(frame.bonds),
         LAMBDA sorted : PDBWriteBonds(frame.natoms, sorted, SelectSeq(sorted, KeepsBond)))

GROWriteFrame(frame) ==
    [done     |-> TRUE,
     stars    |-> \E i \in 0..frame.natoms - 1 : to_gro_index(i).text = Stars,
     warnings |-> Cardinality({i \in 0..frame.natoms - 1 : to_gro_index(i).warned})]

\* read_next on the records printed: the CONECT records from record k on
RECURSIVE ReadConectLines(_, _, _, _, _)
ReadConectLines(offsets, natoms, recs, k, acc) ==
    IF k > Len(recs) THEN {acc}
    ELSE UNION {IF q.thrown # "none" THEN {[acc EXCEPT !.thrown = q.thrown]}
                ELSE ReadConectLines(offsets, natoms, recs, k + 1,
                        [acc EXCEPT !.bonds = @ \cup {normalize_bond_type(q.bonds[b][1],
                                                                          q.bonds[b][2])
                                                        : b \in DOMAIN q.bonds},
                                    !.warned = @ \/ q.warned])
                  : q \in read_CONECT(offsets, natoms, recs[k])}

\* read_next on what write_next printed: the ATOM records, then the CONECT
\* records
PDBReadBack(pdb) ==
    ReadConectLines(IF pdb.atoms = 0 THEN <<>> ELSE InitialOffset(<<>>, pdb.first),
                    pdb.atoms, pdb.conect, 1,
                    [done |-> TRUE, thrown |-> "none", natoms |-> pdb.atoms, bonds |-> {},
                     warned |-> FALSE])

NotWritten == [done |-> FALSE, atoms |-> 0, first |-> 0, stars |-> FALSE,
               conect |-> <<>>, warnings |-> 0]

NotRead == [done |-> FALSE, thrown |-> "none", natoms |-> 0, bonds |-> {}, warned |-> FALSE]

NotWrittenGRO == [done |-> FALSE, stars |-> FALSE, warnings |-> 0]

WriterIdle ==
    writer = [frame |-> [natoms |-> 0, bonds |-> {}], pdb |-> NotWritten,
              back |-> NotRead, gro |-> NotWrittenGRO]

----------------------------------------------------------------------------
\* The PDB reader's secondary structure: the HELIX, SHEET and TURN records
\* fill secinfo_, the ATOM records fill residues_, and chain_ended tags the
\* residues and gives them to the frame.
\* A residue key is <<chain, resid, insertion code>>, the chain A being 1
\* and the insertion code ' ' being 0.

SecKeys == {<<1, 1, 0>>, <<1, 1, 1>>, <<1, 2, 0>>, <<1, 2, 1>>, <<2, 1, 0>>}

\* operator< of the std::tuple residue_info_t
KeyLess(a, b) ==
    \/ a[1] < b[1]
    \/ a[1] = b[1] /\ a[2] < b[2]
    \/ a[1] = b[1] /\ a[2] = b[2] /\ a[3] < b[3]

\* the HELIX and SHEET records read, each long enough and with numbers
SecRecords ==
    {[kind |-> "HELIX", start |-> <<1, 1, 0>>, end |-> <<1, 2, 0>>, class |-> 1],
     [kind |-> "SHEET", start |-> <<1, 1, 1>>, end |-> <<1, 2, 1>>, class |-> 0],
     [kind |-> "HELIX", start |-> <<1, 2, 0>>, end |-> <<1, 2, 0>>, class |-> 5],
     [kind |-> "SHEET", start |-> <<1, 2, 1>>, end |-> <<1, 1, 0>>, class |-> 0],
     [kind |-> "HELIX", start |-> <<1, 1, 0>>, end |-> <<2, 1, 0>>, class |-> 1],
     [kind |-> "HELIX", start |-> <<1, 1, 0>>, end |-> <<1, 2, 1>>, class |-> 9]}

\* the switch of read_HELIX over the helix class: the tag, or "" for none
HelixTag(class) ==
    CASE class \in {1, 6} -> "alpha helix"
      [] class \in {2, 7} -> "omega helix"
      [] class = 3 -> "pi helix"
      [] class \in {4, 8} -> "gamma helix"
      [] class = 5 -> "3-10 helix"
      [] OTHER -> ""

\* read_HELIX and read_secondary: the state after the record
ReadSecondaryRecord(st, rec) ==
    IF rec.start[1] # rec.end[1] THEN [st EXCEPT !.warnings = @ + 1]
    ELSE IF rec.kind = "HELIX"
         THEN IF HelixTag(rec.class) = "" THEN st
              ELSE [st EXCEPT !.secinfo_ = Append(@, <<rec.start, rec.end, HelixTag(rec.class)>>)]
         ELSE [st EXCEPT !.secinfo_ = Append(@, <<rec.start, rec.end, "extended">>)]

\* read_ATOM, the part that fills residues_: a residue with no tag is
\* inserted unless the key is there already
InsertResidue(residues, key) ==
    IF key \in DOMAIN residues THEN residues
    ELSE [k \in DOMAIN residues \cup {key} |-> IF k = key THEN "" ELSE residues[k]]

\* residues_.lower_bound(key) and residues_.upper_bound(key): the number of
\* residues before the iterator returned
LowerBoundKey(residues, key) == Cardinality({k \in DOMAIN residues : KeyLess(k, key)})

UpperBoundKey(residues, key) == Cardinality({k \in DOMAIN residues : ~KeyLess(key, k)})

\* the loop of chain_ended over one range: from start to end when start is
\* not after end; from start to the last residue otherwise, and then the
\* iterator is moved past residues_.end(), which is undefined: the reader
\* crashes, or leaves the loop
TagRange(acc, info) ==
    IF acc.crashed THEN {acc}
    ELSE IF LowerBoundKey(acc.residues, info[1]) <= UpperBoundKey(acc.residues, info[2])
    THEN {[acc EXCEPT !.residues =
              [k \in DOMAIN @ |->
                  IF ~KeyLess(k, info[1]) /\ ~KeyLess(info[2], k) THEN info[3] ELSE @[k]]]}
    ELSE {[residues |-> [k \in DOMAIN acc.residues |->
                            IF ~KeyLess(k, info[1]) THEN info[3] ELSE acc.residues[k]],
           crashed |-> c] : c \in BOOLEAN}

RECURSIVE TagRanges(_, _, _)
TagRanges(acc, secinfo, k) ==
    IF k > Len(secinfo) THEN {acc}
    ELSE UNION {TagRanges(t, secinfo, k + 1) : t \in TagRange(acc, secinfo[k])}

\* the residues of a map in the order of their keys, each with the number
\* of ranges known when they were given to the frame
RECURSIVE InKeyOrder(_, _)
InKeyOrder(residues, seen) ==
    IF DOMAIN residues = {} THEN <<>>
    ELSE With(CHOOSE k \in DOMAIN residues : \A o \in DOMAIN residues : ~KeyLess(o, k),
              LAMBDA k : <<[key |-> k, tag |-> residues[k], seen |-> seen]>>
                            \o InKeyOrder([o \in DOMAIN residues \ {k} |-> residues[o]], seen))

\* chain_ended: the states after it
chain_ended(st) ==
    {IF t.crashed THEN [st EXCEPT !.crashed = TRUE, !.done = TRUE]
     ELSE [st EXCEPT !.frame = @ \o InKeyOrder(t.residues, Len(st.secinfo_)),
                     !.residues_ = <<>>]
       : t \in TagRanges([residues |-> st.residues_, crashed |-> FALSE], st.secinfo_, 1)}

NoSecondary ==
    [secinfo_ |-> <<>>, residues_ |-> <<>>, frame |-> <<>>, natoms |-> 0, nter |-> 0,
     warnings |-> 0, crashed |-> FALSE, done |-> FALSE]

SecondaryIdle == secondary = NoSecondary

TopologyIdle == topology = [bonds |-> <<>>, angles |-> <<>>, built |-> FALSE]

----------------------------------------------------------------------------
\* warnings.cpp: the callback CALLBACK kept in a mutex<warning_callback>,
\* set_warning_callback and send_warning.

\* the threads calling
Threads == {1, 2}

\* the callbacks given to set_warning_callback
Callbacks == {"a", "b"}

\* mutex<T>::lock: the calling thread waits until no thread holds the lock
\* and then holds it until the guard returned is destroyed
MutexFree(st) == st.lock = 0

MutexLock(st, t) == [st EXCEPT !.lock = t]

MutexUnlock(st) == [st EXCEPT !.lock = 0]

\* the state before any call: CALLBACK holds the lambda writing to cerr
NoSink ==
    [lock |-> 0, callback |-> "cerr", pc |-> [t \in Threads |-> "idle"],
     arg |-> [t \in Threads |-> ""], calls |-> [t \in Threads |-> 0],
     installed |-> {"cerr"}, sent |-> {}, returned |-> {}, delivered |-> <<>>]

SinkIdle == sink = NoSink

----------------------------------------------------------------------------
\* LAMMPSDataFormat::read_next: the header, the sections and the section
\* dispatcher.  The file is given line by line as the reader asks for it.

\* the lines after the first: empty, header values, section names, a
\* record valid for the section it is in, and other text
DataLines ==
    {"", "2 atoms", "1 bonds", "1 atom types", "Atoms", "Bonds", "Velocities",
     "Masses", "Angles", "record", "text"}

\* get_section
get_section(line) ==
    CASE line = "Atoms" -> "ATOMS"
      [] line = "Bonds" -> "BONDS"
      [] line = "Velocities" -> "VELOCITIES"
      [] line = "Masses" -> "MASSES"
      [] line = "Angles" -> "IGNORED"
      [] OTHER -> "NOT_A_SECTION"

\* file_->readline() of the reader: a line while the file has some, then
\* an empty line with the end-of-stream flag set
NextLines(st) ==
    {[line |-> l, eof |-> FALSE] : l \in IF st.pos < MaxDataLines THEN DataLines ELSE {}}
        \cup {[line |-> "", eof |-> TRUE]}

\* the reader after it has read the line r
Advance(st, r) == [st EXCEPT !.pos = @ + 1, !.eof = r.eof]

\* the state of a constructed reader
NoLammps ==
    [pc |-> "read_next", current_section_ |-> "HEADER", natoms_ |-> 0, nbonds_ |-> 0,
     natom_types_ |-> 0, n |-> 0, atoms |-> -1, bonds |-> -1, velocities |-> -1,
     pos |-> 0, eof |-> FALSE, thrown |-> "none"]

\* one line of the loop of read_header
read_header(st, r) ==
    IF r.line = "" THEN Advance(st, r)
    ELSE IF r.line = "2 atoms" THEN [Advance(st, r) EXCEPT !.natoms_ = 2]
    ELSE IF r.line = "1 bonds" THEN [Advance(st, r) EXCEPT !.nbonds_ = 1]
    ELSE IF r.line = "1 atom types" THEN [Advance(st, r) EXCEPT !.natom_types_ = 1]
    ELSE [Advance(st, r) EXCEPT !.current_section_ = get_section(r.line),
                                !.pc = "dispatch"]

\* one line of the loop of a section of `count` records
read_record(st, r) ==
    IF r.line = "" THEN Advance(st, r)
    ELSE IF r.line = "record" THEN [Advance(st, r) EXCEPT !.n = @ + 1]
    ELSE [Advance(st, r) EXCEPT !.pc = "thrown", !.thrown = "format_error"]

\* one line of the loop of get_next_section
get_next_section(st, r) ==
    IF r.line = "" THEN Advance(st, r)
    ELSE IF get_section(r.line) = "NOT_A_SECTION"
         THEN [Advance(st, r) EXCEPT !.pc = "thrown", !.thrown = "format_error"]
         ELSE [Advance(st, r) EXCEPT !.current_section_ = get_section(r.line),
                                     !.pc = "dispatch"]

\* one line of the loop of skip_to_next_section
skip_to_next_section(st, r) ==
    IF r.line = "" \/ get_section(r.line) = "NOT_A_SECTION" THEN Advance(st, r)
    ELSE [Advance(st, r) EXCEPT !.current_section_ = get_section(r.line),
                                !.pc = "dispatch"]

\* the start of a section reader: the count it needs is in the header
EnterSection(st, count) ==
    IF count = 0 THEN [st EXCEPT !.pc = "thrown", !.thrown = "format_error"]
    ELSE [st EXCEPT !.pc = st.current_section_, !.n = 0]

\* the switch of read_next over current_section_
Dispatch(st) ==
    CASE st.current_section_ = "HEADER" -> [st EXCEPT !.pc = "HEADER"]
      [] st.current_section_ = "ATOMS" -> EnterSection(st, st.natoms_)
      [] st.current_section_ = "MASSES" -> EnterSection(st, st.natom_types_)
      [] st.current_section_ = "BONDS" -> EnterSection(st, st.nbonds_)
      [] st.current_section_ = "VELOCITIES" -> EnterSection(st, st.natoms_)
      [] st.current_section_ = "IGNORED" -> [st EXCEPT !.pc = "IGNORED"]
      [] st.current_section_ = "NOT_A_SECTION" -> [st EXCEPT !.pc = "unreachable"]

\* the end of the loop of read_atoms, read_masses, read_bonds and
\* read_velocities
AtomsRead(st) == [st EXCEPT !.atoms = st.n, !.pc = "get_next_section"]

MassesRead(st) == [st EXCEPT !.pc = "get_next_section"]

BondsRead(st) ==
    IF st.eof /\ st.n < st.nbonds_
    THEN [st EXCEPT !.pc = "thrown", !.thrown = "format_error"]
    ELSE [st EXCEPT !.bonds = st.n, !.pc = "get_next_section"]

VelocitiesRead(st) ==
    IF st.eof /\ st.n < st.nbonds_
    THEN [st EXCEPT !.pc = "thrown", !.thrown = "format_error"]
    ELSE [st EXCEPT !.velocities = st.n, !.pc = "get_next_section"]

LammpsIdle == lammps = NoLammps

MoreIdle == SecondaryIdle /\ TopologyIdle /\ SinkIdle /\ LammpsIdle

PDBIdle == LinkerIdle /\ ConectIdle /\ WriterIdle /\ MoreIdle

\* every component but the text format handle in its initial state
AuxIdle == TypesIdle /\ GuessIdle /\ PDBIdle

----------------------------------------------------------------------------
Handle == [file |-> file, steps |-> steps_positions_, eof_found |-> eof_found_]

Call(op, step, o, ret) ==
    [op |-> op, step |-> step, thrown |-> o.thrown, what |-> o.what, max |-> o.max,
     frame |-> o.frame, nfwd |-> o.nfwd, begun_none |-> o.begun_none,
     begun_cut |-> o.begun_cut, malformed |-> o.malformed, io |-> o.io, ret |-> ret]

NoCall ==
    [op |-> "open", step |-> -1, thrown |-> "none", what |-> "", max |-> -1,
     frame |-> NoFrame, nfwd |-> 0, begun_none |-> FALSE, begun_cut |-> FALSE,
     malformed |-> FALSE, io |-> FALSE, ret |-> -1]

Init ==
    /\ format \in Formats
    /\ mode \in {"r", "w"}
    /\ mode = "w" => format = "PDB"
    /\ lines \in IF mode = "w" THEN {<<>>} ELSE SeqsUpTo(Alphabet(format), MaxLines(format))
    /\ file = FreshStream
    /\ steps_positions_ = <<>>
    /\ eof_found_ = FALSE
    /\ models_ = 0
    /\ written_ = FALSE
    /\ last = NoCall
    /\ counted = -1
    /\ allok = TRUE
    /\ AuxIdle

Apply(o) ==
    /\ file' = o.h.file
    /\ steps_positions_' = o.h.steps
    /\ eof_found_' = o.h.eof_found
    /\ allok' = (allok /\ o.thrown = "none")
    /\ UNCHANGED <<format, mode, lines, models_, written_>>
    /\ UNCHANGED auxvars

Read ==
    /\ mode = "r"
    /\ Len(steps_positions_) < MaxIndex
    /\ \E o \in {read(format, lines, Handle)} :
           /\ Apply(o)
           /\ last' = Call("read", -1, o, -1)
           /\ UNCHANGED counted

ReadStep ==
    /\ mode = "r"
    /\ \E step \in 0..MaxStep :
         \E o \in {read_step(format, lines, Handle, step)} :
             /\ Apply(o)
             /\ last' = Call("read_step", step, o, -1)
             /\ UNCHANGED counted

NSteps ==
    /\ mode = "r"
    /\ \E o \in {nsteps(format, lines, Handle)} :
           /\ Apply(o)
           /\ last' = Call("nsteps", -1, o, IF o.thrown = "none" THEN Len(o.h.steps) ELSE -1)
           /\ counted' = IF o.thrown = "none" THEN Len(o.h.steps) ELSE counted

Write ==
    /\ mode = "w"
    /\ Len(lines) < MaxOut
    /\ \E fr \in WFrames :
         LET out == lines \o PDBWritten(fr, models_ + 1)
             thrown == IF PDBWriteThrows(fr) THEN "format_error" ELSE "none"
         IN  /\ lines' = out
             /\ written_' = TRUE
             /\ file' = [file EXCEPT !.pos = Len(out)]
             /\ models_' = IF thrown = "none" THEN models_ + 1 ELSE models_
             /\ steps_positions_' = IF thrown = "none"
                                    THEN Append(steps_positions_, TellG(file'))
                                    ELSE steps_positions_
             /\ allok' = (allok /\ thrown = "none")
             /\ last' = [NoCall EXCEPT !.op = "write", !.thrown = thrown]
             /\ UNCHANGED <<format, mode, eof_found_, counted>>
             /\ UNCHANGED auxvars

Next == Read \/ ReadStep \/ NSteps \/ Write

Spec == Init /\ [][Next]_vars

\* A PDB write handle: frames written, the handle closed, and the file
\* counted through a read handle.
InitWrite ==
    /\ format = "PDB"
    /\ mode = "w"
    /\ lines = <<>>
    /\ file = FreshStream
    /\ steps_positions_ = <<>>
    /\ eof_found_ = FALSE
    /\ models_ = 0
    /\ written_ = FALSE
    /\ last = NoCall
    /\ counted = -1
    /\ allok = TRUE
    /\ AuxIdle

\* PDBFormat::~PDBFormat
Close ==
    /\ mode = "w"
    /\ mode' = "closed"
    /\ lines' = IF written_ THEN Append(lines, "END") ELSE lines
    /\ last' = [NoCall EXCEPT !.op = "close"]
    /\ UNCHANGED <<format, file, steps_positions_, eof_found_, models_, written_,
                   counted, allok>>
    /\ UNCHANGED auxvars

\* step_count() of a read handle opened on the file written
CountWritten ==
    /\ mode = "closed"
    /\ counted = -1
    /\ \E o \in {nsteps("PDB", lines, [file |-> FreshStream, steps |-> <<>>,
                                       eof_found |-> FALSE])} :
           /\ o.thrown = "none"
           /\ last' = Call("nsteps", -1, o, Len(o.h.steps))
           /\ counted' = Len(o.h.steps)
    /\ UNCHANGED <<format, mode, lines, file, steps_positions_, eof_found_, models_,
                   written_, allok>>
    /\ UNCHANGED auxvars

NextWrite == Write \/ Close \/ CountWritten

SpecWrite == InitWrite /\ [][NextWrite]_vars

\* A read handle of a single-frame format.
InitSingle ==
    /\ format \in SingleFormats
    /\ mode = "r"
    /\ lines \in SeqsUpTo(Alphabet(format), MaxLines(format))
    /\ file = FreshStream
    /\ steps_positions_ = <<>>
    /\ eof_found_ = FALSE
    /\ models_ = 0
    /\ written_ = FALSE
    /\ last = NoCall
    /\ counted = -1
    /\ allok = TRUE
    /\ AuxIdle

NextSingle == Read \/ ReadStep \/ NSteps

SpecSingle == InitSingle /\ [][NextSingle]_vars

----------------------------------------------------------------------------
\* Reference: pure sequential read() on a freshly opened handle of the file.

\* the stream after k calls of read()
RECURSIVE SeqStream(_, _, _)
SeqStream(f, L, k) ==
    IF k = 0 THEN FreshStream ELSE read_next(f, L, SeqStream(f, L, k - 1)).s

\* what the (i+1)-th call of read() returns
SeqRead(f, L, i) == read_next(f, L, SeqStream(f, L, i))

\* entry i of the index is the start of frame i
IndexConsistent ==
    \A i \in 1..Len(steps_positions_) :
        /\ SeqRead(format, lines, i - 1).thrown = "none"
        /\ SeqRead(format, lines, i - 1).frame.from = steps_positions_[i]

\* the number of frames a full scan of the file finds on a fresh handle
FileFrames(f, L) ==
    Len(scan_all(f, L, [file |-> FreshStream, steps |-> <<>>, eof_found |-> FALSE]).h.steps)

StrictlyIncreasing(q) == \A i, j \in 1..Len(q) : i < j => q[i] < q[j]

\* what a read() issued now would return
NextRead(s) == [ok    |-> read_next(format, lines, s).thrown = "none",
                frame |-> read_next(format, lines, s).frame]

----------------------------------------------------------------------------
\* No text format handle is open.
TextIdle ==
    /\ format = "PDB"
    /\ mode = "none"
    /\ lines = <<>>
    /\ file = FreshStream
    /\ steps_positions_ = <<>>
    /\ eof_found_ = FALSE
    /\ models_ = 0
    /\ written_ = FALSE
    /\ last = NoCall
    /\ counted = -1
    /\ allok = TRUE

\* DataTypes::DataTypes(topology): one step per bond, angle, dihedral and
\* improper of the topology, before the first lookup.
Building == type_query = NoQuery /\ NTypes(datatypes) < MaxTypes

OnlyTypes == UNCHANGED <<textvars, guess, pdbvars>>

AddBond ==
    /\ Building
    /\ \E i, j \in AtomTypes :
           datatypes' = [datatypes EXCEPT !.bonds_ = @ \cup {normalize_bond_type(i, j)}]
    /\ UNCHANGED type_query
    /\ OnlyTypes

AddAngle ==
    /\ Building
    /\ \E i, j, k \in AtomTypes :
           datatypes' = [datatypes EXCEPT !.angles_ = @ \cup {normalize_angle_type(i, j, k)}]
    /\ UNCHANGED type_query
    /\ OnlyTypes

AddDihedral ==
    /\ Building
    /\ \E i, j, k, m \in AtomTypes :
           datatypes' = [datatypes EXCEPT
                            !.dihedrals_ = @ \cup {normalize_dihedral_type(i, j, k, m)}]
    /\ UNCHANGED type_query
    /\ OnlyTypes

AddImproper ==
    /\ Building
    /\ \E i, j, k, m \in AtomTypes :
           datatypes' = [datatypes EXCEPT
                            !.impropers_ = @ \cup {normalize_improper_type(i, j, k, m)}]
    /\ UNCHANGED type_query
    /\ OnlyTypes

BondTypeId ==
    /\ \E i, j \in AtomTypes :
           type_query' = [kind |-> "bond", args |-> <<i, j>>,
                          id |-> bond_type_id(datatypes, i, j)]
    /\ UNCHANGED datatypes
    /\ OnlyTypes

AngleTypeId ==
    /\ \E i, j, k \in AtomTypes :
           type_query' = [kind |-> "angle", args |-> <<i, j, k>>,
                          id |-> angle_type_id(datatypes, i, j, k)]
    /\ UNCHANGED datatypes
    /\ OnlyTypes

DihedralTypeId ==
    /\ \E i, j, k, m \in AtomTypes :
           type_query' = [kind |-> "dihedral", args |-> <<i, j, k, m>>,
                          id |-> dihedral_type_id(datatypes, i, j, k, m)]
    /\ UNCHANGED datatypes
    /\ OnlyTypes

ImproperTypeId ==
    /\ \E i, j, k, m \in AtomTypes :
           type_query' = [kind |-> "improper", args |-> <<i, j, k, m>>,
                          id |-> improper_type_id(datatypes, i, j, k, m)]
    /\ UNCHANGED datatypes
    /\ OnlyTypes

InitTypes == TextIdle /\ AuxIdle

NextTypes ==
    \/ AddBond \/ AddAngle \/ AddDihedral \/ AddImproper
    \/ BondTypeId \/ AngleTypeId \/ DihedralTypeId \/ ImproperTypeId

SpecTypes == InitTypes /\ [][NextTypes]_vars

\* the constructor of DataTypes on a topology
InitTopology ==
    /\ TextIdle
    /\ TypesIdle
    /\ GuessIdle
    /\ LinkerIdle /\ ConectIdle /\ WriterIdle /\ SecondaryIdle /\ SinkIdle /\ LammpsIdle
    /\ topology \in [bonds : SeqsUpTo(AtomTypes \X AtomTypes, MaxTopology),
                     angles : SeqsUpTo(AtomTypes \X AtomTypes \X AtomTypes, MaxTopology - 1),
                     built : {FALSE}]

Construct ==
    /\ ~topology.built
    /\ topology' = [topology EXCEPT !.built = TRUE]
    /\ datatypes' = DataTypesOf(topology)
    /\ UNCHANGED <<textvars, type_query, guess, linker, conect, writer, secondary, sink,
                   lammps>>

NextTopology == Construct

SpecTopology == InitTopology /\ [][NextTopology]_vars

----------------------------------------------------------------------------
InitGuess ==
    /\ TextIdle
    /\ TypesIdle
    /\ PDBIdle
    /\ \E n \in 1..MaxAtoms :
           guess \in [natoms : {n}, bonds : SeqsUpTo(BondsOf(n), MaxBonds),
                      done : {FALSE}, molids : {<<>>}]

GuessMolecules ==
    /\ ~guess.done
    /\ guess' = [guess EXCEPT !.done = TRUE,
                              !.molids = guess_molecules(guess.natoms, guess.bonds)]
    /\ UNCHANGED <<textvars, typevars, pdbvars>>

NextGuess == GuessMolecules

SpecGuess == InitGuess /\ [][NextGuess]_vars

----------------------------------------------------------------------------
InitLink ==
    /\ TextIdle
    /\ TypesIdle
    /\ GuessIdle
    /\ ConectIdle
    /\ WriterIdle
    /\ MoreIdle
    /\ linker \in [residues : SeqsUpTo(Residues, MaxResidues) \ {<<>>},
                   done : {FALSE}, bonds : {<<>>}, thrown : {FALSE}, warnings : {<<>>}]

LinkStandardResidueBonds ==
    /\ ~linker.done
    /\ \E out \in link_standard_residue_bonds(linker.residues) :
           linker' = [linker EXCEPT !.done = TRUE, !.bonds = out.bonds,
                                    !.thrown = out.thrown, !.warnings = out.warnings]
    /\ UNCHANGED <<textvars, typevars, guess, conect, writer, morevars>>

NextLink == LinkStandardResidueBonds

SpecLink == InitLink /\ [][NextLink]_vars

\* a peptide residue, then a residue with a bond template
PeptideResidue == [id |-> <<5>>, atoms |-> {"N", "C"}, known |-> TRUE, table |-> <<>>]

InitTemplate ==
    /\ TextIdle
    /\ TypesIdle
    /\ GuessIdle
    /\ ConectIdle
    /\ WriterIdle
    /\ MoreIdle
    /\ linker \in [residues : {<<PeptideResidue, r>> : r \in TemplateResidues},
                   done : {FALSE}, bonds : {<<>>}, thrown : {FALSE}, warnings : {<<>>}]

SpecTemplate == InitTemplate /\ [][NextLink]_vars

----------------------------------------------------------------------------
\* Reading the records of one PDB frame: ATOM, TER and CONECT.

OnlyConect == UNCHANGED <<textvars, typevars, guess, linker, writer, morevars>>

\* the serial numbers the next record can carry: the numbering goes on, or
\* starts again at 1 after a TER
NextSerials ==
    IF conect.next = 0 THEN FirstSerials
    ELSE {conect.next} \cup (IF conect.after_ter THEN {1} ELSE {})

ReadATOM ==
    /\ ~conect.done
    /\ conect.natoms < MaxPDBAtoms
    /\ \E serial \in NextSerials :
           conect' = [conect EXCEPT
                         !.atom_offsets_ = InitialOffset(@, serial),
                         !.natoms = @ + 1,
                         !.ids = Append(@, serial),
                         !.next = serial + 1,
                         !.after_ter = FALSE]
    /\ OnlyConect

ReadTER ==
    /\ ~conect.done
    /\ conect.nter < MaxTER
    /\ \E serial \in NextSerials \ (IF conect.next = 0 THEN {} ELSE {1}) :
           conect' = [conect EXCEPT
                         !.atom_offsets_ = Append(@, serial),
                         !.nter = @ + 1,
                         !.next = serial + 1,
                         !.after_ter = TRUE]
    /\ OnlyConect

\* the atom ids of the CONECT records read: no number, 3, the entries of
\* the table and the ids after them, and the id of the last atom
ConectIds ==
    {-1, 3} \cup {conect.atom_offsets_[k] + d : k \in 1..Len(conect.atom_offsets_), d \in {0, 1}}
            \cup {conect.ids[k] : k \in {Len(conect.ids)} \ {0}}

\* the ids of the first atom bonded: none (-1), the id of the first atom,
\* and the id after the one of the last record
FirstPartners ==
    {-1} \cup {conect.ids[k] : k \in {1} \cap DOMAIN conect.ids}
         \cup ({conect.next} \ {0})

\* the ids of the second atom bonded: none (-1), or the id of the first
\* atom after an id that is not the one of an atom
SecondPartners(y) ==
    IF y = conect.next /\ y > 0
    THEN {conect.ids[k] : k \in {1} \cap DOMAIN conect.ids}
    ELSE {-1}

\* the fields of the record: those that are there
ConectRecord(x, y, z) ==
    IF y < 0 THEN <<x>> ELSE IF z < 0 THEN <<x, y>> ELSE <<x, y, z>>

ReadCONECT ==
    /\ ~conect.done
    /\ \E x \in ConectIds, y \in FirstPartners :
         \E z \in SecondPartners(y) :
         \E q \in read_CONECT(conect.atom_offsets_, conect.natoms, ConectRecord(x, y, z)) :
           conect' = [conect EXCEPT
                         !.done = TRUE,
                         !.query = [x |-> x, y |-> y, z |-> z, thrown |-> q.thrown,
                                    i |-> q.i, bonds |-> q.bonds, warned |-> q.warned]]
    /\ OnlyConect

InitConect == TextIdle /\ AuxIdle

NextConect == ReadATOM \/ ReadTER \/ ReadCONECT

SpecConect == InitConect /\ [][NextConect]_vars

----------------------------------------------------------------------------
\* Writing one frame with the PDB and the GRO writers, and reading the PDB
\* file back.

\* the sizes of the frames written
FrameSizes == {MaxPartners + 1, MaxSerial, MaxSerial + 1, MaxSerial + 2}

\* the bonds a frame can have: between its first atom and the atoms after
\* it, and between its first atom and the atoms around index MaxSerial
FrameBonds(natoms) ==
    {b \in ({0} \X (1..MaxPartners))
            \cup {<<0, MaxSerial - 1>>, <<0, MaxSerial>>, <<MaxSerial, MaxSerial + 1>>}
        : b[2] < natoms}

OnlyWriter == UNCHANGED <<textvars, typevars, guess, linker, conect, morevars>>

InitWriter ==
    /\ TextIdle
    /\ TypesIdle
    /\ GuessIdle
    /\ LinkerIdle
    /\ ConectIdle
    /\ MoreIdle
    /\ \E n \in FrameSizes :
           writer \in [frame : [natoms : {n}, bonds : SUBSET FrameBonds(n)],
                       pdb : {NotWritten}, back : {NotRead}, gro : {NotWrittenGRO}]

WritePDB ==
    /\ ~writer.pdb.done
    /\ writer' = [writer EXCEPT !.pdb = PDBWriteFrame(writer.frame)]
    /\ OnlyWriter

ReadPDB ==
    /\ writer.pdb.done /\ ~writer.back.done
    /\ \E r \in PDBReadBack(writer.pdb) : writer' = [writer EXCEPT !.back = r]
    /\ OnlyWriter

WriteGRO ==
    /\ ~writer.gro.done
    /\ writer' = [writer EXCEPT !.gro = GROWriteFrame(writer.frame)]
    /\ OnlyWriter

NextWriter == WritePDB \/ ReadPDB \/ WriteGRO

SpecWriter == InitWriter /\ [][NextWriter]_vars

----------------------------------------------------------------------------
\* Reading the records of one PDB frame: HELIX, SHEET, ATOM, TER and END.

OnlySecondary ==
    UNCHANGED <<textvars, typevars, guess, linker, conect, writer, topology, sink, lammps>>

ReadHELIX ==
    /\ ~secondary.done
    /\ Len(secondary.secinfo_) + secondary.warnings < MaxSecRecords
    /\ \E rec \in SecRecords : secondary' = ReadSecondaryRecord(secondary, rec)
    /\ OnlySecondary

ReadResidue ==
    /\ ~secondary.done
    /\ secondary.natoms < MaxSecAtoms
    /\ \E key \in SecKeys :
           secondary' = [secondary EXCEPT !.residues_ = InsertResidue(@, key),
                                          !.natoms = @ + 1]
    /\ OnlySecondary

ReadChainTER ==
    /\ ~secondary.done
    /\ secondary.nter < MaxSecTER
    /\ \E t \in chain_ended(secondary) : secondary' = [t EXCEPT !.nter = @ + 1]
    /\ OnlySecondary

ReadEND ==
    /\ ~secondary.done
    /\ \E t \in chain_ended(secondary) : secondary' = [t EXCEPT !.done = TRUE]
    /\ OnlySecondary

InitSecondary == TextIdle /\ AuxIdle

NextSecondary == ReadHELIX \/ ReadResidue \/ ReadChainTER \/ ReadEND

SpecSecondary == InitSecondary /\ [][NextSecondary]_vars

----------------------------------------------------------------------------
\* The threads calling set_warning_callback and send_warning, one step at
\* a time.

OnlySink ==
    UNCHANGED <<textvars, typevars, guess, linker, conect, writer, secondary, topology,
                lammps>>

\* a thread calls set_warning_callback(callback)
CallSet(t) ==
    /\ sink.pc[t] = "idle" /\ sink.calls[t] < MaxCalls
    /\ \E callback \in Callbacks :
           sink' = [sink EXCEPT !.pc[t] = "set_lock", !.arg[t] = callback,
                                !.calls[t] = @ + 1,
                                !.installed = @ \cup {callback}]
    /\ OnlySink

\* auto guard = CALLBACK.lock();
SetLock(t) ==
    /\ sink.pc[t] = "set_lock"
    /\ MutexFree(sink)
    /\ sink' = [MutexLock(sink, t) EXCEPT !.pc[t] = "set_assign"]
    /\ OnlySink

\* *guard = std::move(callback): the target CALLBACK held is destroyed,
\* and the new one is moved in; between the two CALLBACK holds neither
SetDestroy(t) ==
    /\ sink.pc[t] = "set_assign"
    /\ sink' = [sink EXCEPT !.pc[t] = "set_move", !.callback = "partial"]
    /\ OnlySink

SetMove(t) ==
    /\ sink.pc[t] = "set_move"
    /\ sink' = [sink EXCEPT !.pc[t] = "set_unlock", !.callback = sink.arg[t]]
    /\ OnlySink

\* the guard of set_warning_callback is destroyed and the call returns
SetUnlock(t) ==
    /\ sink.pc[t] = "set_unlock"
    /\ sink' = [MutexUnlock(sink) EXCEPT !.pc[t] = "idle"]
    /\ OnlySink

\* a thread calls send_warning(message), the message being its own
CallSend(t) ==
    /\ sink.pc[t] = "idle" /\ sink.calls[t] < MaxCalls
    /\ sink' = [sink EXCEPT !.pc[t] = "send_lock", !.calls[t] = @ + 1,
                            !.arg[t] = "", !.sent = @ \cup {<<t, sink.calls[t] + 1>>}]
    /\ OnlySink

SendLock_NoWait(t) ==
    /\ sink.pc[t] = "send_lock"
    /\ sink' = [sink EXCEPT !.pc[t] = "send_invoke"]
    /\ OnlySink

\* auto callback = CALLBACK.lock();
SendLock(t) ==
    /\ sink.pc[t] = "send_lock"
    /\ MutexFree(sink)
    /\ sink' = [MutexLock(sink, t) EXCEPT !.pc[t] = "send_invoke"]
    /\ OnlySink

\* (*callback)(message);
SendInvoke(t) ==
    /\ sink.pc[t] = "send_invoke"
    /\ sink' = [sink EXCEPT !.pc[t] = "send_unlock",
                            !.delivered = Append(@, [message |-> <<t, sink.calls[t]>>,
                                                     to |-> sink.callback])]
    /\ OnlySink

\* the guard of send_warning is destroyed and the call returns
SendUnlock(t) ==
    /\ sink.pc[t] = "send_unlock"
    /\ sink' = [MutexUnlock(sink) EXCEPT !.pc[t] = "idle",
                                         !.returned = @ \cup {<<t, sink.calls[t]>>}]
    /\ OnlySink

InitSink == TextIdle /\ AuxIdle

NextSink ==
    \E t \in Threads :
        \/ CallSet(t) \/ SetLock(t) \/ SetDestroy(t) \/ SetMove(t) \/ SetUnlock(t)
        \/ CallSend(t) \/ SendLock(t) \/ SendInvoke(t) \/ SendUnlock(t)

SpecSink == InitSink /\ [][NextSink]_vars

----------------------------------------------------------------------------
\* Reading one LAMMPS data file, a line or a turn of the dispatcher at a
\* time.

OnlyLammps ==
    UNCHANGED <<textvars, typevars, guess, linker, conect, writer, secondary, topology,
                sink>>

\* read_next, up to its loop: the first line is read
ReadComment ==
    /\ lammps.pc = "read_next"
    /\ \E r \in {[line |-> "text", eof |-> FALSE], [line |-> "", eof |-> TRUE]} :
           lammps' = [lammps EXCEPT !.pc = "dispatch", !.eof = r.eof]
    /\ OnlyLammps

\* one turn of the loop of read_next: the section reader is entered, or
\* the loop ends and read_next returns
DispatchSection ==
    /\ lammps.pc = "dispatch"
    /\ lammps' = IF lammps.eof THEN [lammps EXCEPT !.pc = "returned"] ELSE Dispatch(lammps)
    /\ OnlyLammps

ReadHeaderLine ==
    /\ lammps.pc = "HEADER"
    /\ IF lammps.eof THEN lammps' = [lammps EXCEPT !.pc = "dispatch"]
       ELSE \E r \in NextLines(lammps) : lammps' = read_header(lammps, r)
    /\ OnlyLammps

ReadAtomsLine ==
    /\ lammps.pc = "ATOMS"
    /\ IF lammps.n < lammps.natoms_ /\ ~lammps.eof
       THEN \E r \in NextLines(lammps) : lammps' = read_record(lammps, r)
       ELSE lammps' = AtomsRead(lammps)
    /\ OnlyLammps

ReadMassesLine ==
    /\ lammps.pc = "MASSES"
    /\ IF lammps.n < lammps.natom_types_ /\ ~lammps.eof
       THEN \E r \in NextLines(lammps) : lammps' = read_record(lammps, r)
       ELSE lammps' = MassesRead(lammps)
    /\ OnlyLammps

ReadBondsLine ==
    /\ lammps.pc = "BONDS"
    /\ IF lammps.n < lammps.nbonds_ /\ ~lammps.eof
       THEN \E r \in NextLines(lammps) : lammps' = read_record(lammps, r)
       ELSE lammps' = BondsRead(lammps)
    /\ OnlyLammps

ReadVelocitiesLine ==
    /\ lammps.pc = "VELOCITIES"
    /\ IF lammps.n < lammps.natoms_ /\ ~lammps.eof
       THEN \E r \in NextLines(lammps) : lammps' = read_record(lammps, r)
       ELSE lammps' = VelocitiesRead(lammps)
    /\ OnlyLammps

GetNextSection ==
    /\ lammps.pc = "get_next_section"
    /\ IF lammps.eof THEN lammps' = [lammps EXCEPT !.pc = "dispatch"]
       ELSE \E r \in NextLines(lammps) : lammps' = get_next_section(lammps, r)
    /\ OnlyLammps

SkipToNextSection ==
    /\ lammps.pc = "IGNORED"
    /\ IF lammps.eof THEN lammps' = [lammps EXCEPT !.pc = "dispatch"]
       ELSE \E r \in NextLines(lammps) : lammps' = skip_to_next_section(lammps, r)
    /\ OnlyLammps

InitLammps == TextIdle /\ AuxIdle

NextLammps ==
    \/ ReadComment \/ DispatchSection \/ ReadHeaderLine \/ ReadAtomsLine
    \/ ReadMassesLine \/ ReadBondsLine \/ ReadVelocitiesLine
    \/ GetNextSection \/ SkipToNextSection

SpecLammps == InitLammps /\ [][NextLammps]_vars

----------------------------------------------------------------------------
\* the atoms reachable from the atoms of `from` through the bonds
RECURSIVE Reach(_, _)
Reach(from, bonds) ==
    LET more == from \cup {b[2] : b \in {c \in bonds : c[1] \in from}}
                     \cup {b[1] : b \in {c \in bonds : c[2] \in from}}
    IN  IF more = from THEN from ELSE Reach(more, bonds)

BondSet(q) == {q[k] : k \in 1..Len(q)}

\* a single-frame handle holds at most one index entry
AtMostOneStep == Len(steps_positions_) <= 1 /\ (last.op = "nsteps" => last.ret <= 1)

----------------------------------------------------------------------------
\* C1: after any sequence of read, read_step, step_count and write calls the
\* frame index is a strictly increasing sequence of offsets (no offset
\* twice, no later entry smaller than or equal to an earlier one).
C1_IndexStrictlyIncreasing == StrictlyIncreasing(steps_positions_)

\* C2 (as stated): once step_count() has returned N, every later
\* read_step(i) with 0 <= i < N succeeds and does not invoke the scanner.
C2_ReadStepBelowCountSucceeds ==
    (last.op = "read_step" /\ counted >= 0 /\ last.step < counted)
        => (last.thrown = "none" /\ last.nfwd = 0)

\* C2 (amended): once step_count() has returned N, a later read_step(i) with
\* 0 <= i < N never invokes the scanner and never reports an out-of-range
\* or scan error: it returns what the parser makes of the frame at entry i,
\* a frame or the parser's error; and a full scan requested after a
\* completed scan changes neither the index, the flag nor the cursor.
C2_NoRescanAfterCount ==
    /\ [](  (last.op = "read_step" /\ counted >= 0 /\ last.step < counted)
            => (last.nfwd = 0 /\ last.what \in {"", "parse"}))
    /\ [][ (eof_found_ /\ last'.op = "nsteps")
            => (/\ steps_positions_' = steps_positions_
                /\ eof_found_' = eof_found_
                /\ file' = file
                /\ last'.nfwd = 0) ]_vars

\* C2 witness: a read_step below a returned count that parsed a second frame,
\* on a handle whose completed scan was requested again
C2_Witness ==
    /\ last.op = "read_step" /\ counted >= 2 /\ last.step = 1
    /\ last.thrown = "none" /\ last.frame.from > 0

\* C3: read_step(i), i below the step count, yields the frame the (i+1)-th
\* sequential read() of a fresh handle yields.
C3_ReadStepMatchesSequential ==
    (last.op = "read_step" /\ last.what \in {"", "parse"})
        => /\ SeqRead(format, lines, last.step).thrown = last.thrown
           /\ SeqRead(format, lines, last.step).frame = last.frame

\* C4: after successful calls only, every step_count() returns the number of
\* frames of the file.
C4_StepCountIsFileFrames ==
    (last.op = "nsteps" /\ allok) => last.ret = FileFrames(format, lines)

\* C5: read_step(n) with n at or beyond the final step count fails after the
\* full scan without parsing a frame, reporting "no step" when the index is
\* empty and the maximal valid index, index length minus one, otherwise.
C5_OutOfRangeStep ==
    (last.op = "read_step" /\ last.what # "scan" /\ last.step >= Len(steps_positions_))
        => /\ last.thrown = "file_error"
           /\ last.frame = NoFrame
           /\ eof_found_
           /\ IF Len(steps_positions_) = 0
              THEN last.what = "no_step"
              ELSE last.what = "max_step" /\ last.max = Len(steps_positions_) - 1

\* C5 witness: an out-of-range request on a file of two frames
C5_Witness ==
    last.op = "read_step" /\ last.what = "max_step" /\ last.max = 1 /\ last.step = 2

\* C6: read() never scans; a successful read() appends exactly the cursor
\* position held before parsing and leaves the complete flag alone, a failed
\* read() appends nothing, and the index stays consistent.
C6_ReadKeepsIndexConsistent ==
    [][ last'.op = "read"
        => /\ last'.nfwd = 0
           /\ eof_found_' = eof_found_
           /\ steps_positions_' = IF last'.thrown = "none"
                                  THEN Append(steps_positions_, TellG(file))
                                  ELSE steps_positions_
           /\ (IndexConsistent => IndexConsistent') ]_vars

C8_NoSilentTruncation == ~last.begun_none

\* C9 (as stated): a count line that is present but malformed makes
\* step_count() and an out-of-range read_step() abort with the scanner's error.
C9_MalformedCountAborts ==
    last.malformed => (last.thrown # "none" /\ last.what = "scan")

\* C9 (amended): a count line that is present but too short or no integer
\* ends the scan without an error: the scan completes, step_count() returns
\* the number of frames found before that line, and a read_step() beyond
\* them fails with the out-of-range error, not with a scanner error.
C9_MalformedCountEndsScan ==
    last.malformed
        => /\ eof_found_
           /\ last.what # "scan"
           /\ last.op = "nsteps"
                => (last.thrown = "none" /\ last.ret = Len(steps_positions_))
           /\ (last.op = "read_step" /\ last.step >= Len(steps_positions_))
                => (last.thrown = "file_error" /\ last.what \in {"no_step", "max_step"})

\* C9 witness: step_count() returned the one frame found before a frame
\* whose count line is no integer
C9_Witness ==
    /\ last.op = "nsteps" /\ last.malformed /\ last.thrown = "none"
    /\ last.ret = 1 /\ last.nfwd = 2

\* C10: a scanner call that leaves the stream in an error state makes
\* scan_all raise, without setting the complete flag.
C10_IOErrorAbortsScan ==
    last.io => (last.thrown # "none" /\ last.what = "scan" /\ ~eof_found_)

\* C11: a handle of a single-frame format (CSSR, LAMMPS Data) never holds
\* more than one index entry and step_count() never returns more than 1.
C11_SingleFrameIndex == AtMostOneStep

\* C12: a dihedral (i,j,k,m) and its reversal (m,k,j,i) canonicalize to the
\* same tuple and get the same type id, and canonicalizing a canonical
\* tuple returns it unchanged.
C12_DihedralReversal ==
    type_query.kind = "dihedral"
        => LET a == type_query.args
               n == normalize_dihedral_type(a[1], a[2], a[3], a[4])
           IN  /\ normalize_dihedral_type(a[4], a[3], a[2], a[1]) = n
               /\ dihedral_type_id(datatypes, a[4], a[3], a[2], a[1]) = type_query.id
               /\ normalize_dihedral_type(n[1], n[2], n[3], n[4]) = n

\* C13: bond (i,j) and (j,i) get the same type id; angle (i,j,k) and
\* (k,j,i) get the same type id, the vertex j staying in the middle; an
\* improper gets the same type id for every permutation of the three atoms
\* other than its central atom j, which stays in the second slot.
C13_TypeIdSymmetry ==
    LET a == type_query.args
    IN  /\ type_query.kind = "bond"
            => bond_type_id(datatypes, a[2], a[1]) = type_query.id
        /\ type_query.kind = "angle"
            => /\ angle_type_id(datatypes, a[3], a[2], a[1]) = type_query.id
               /\ normalize_angle_type(a[1], a[2], a[3])[2] = a[2]
        /\ type_query.kind = "improper"
            => /\ normalize_improper_type(a[1], a[2], a[3], a[4])[2] = a[2]
               /\ \A p \in {<<a[1], a[3], a[4]>>, <<a[1], a[4], a[3]>>, <<a[3], a[1], a[4]>>,
                              <<a[3], a[4], a[1]>>, <<a[4], a[1], a[3]>>, <<a[4], a[3], a[1]>>} :
                      improper_type_id(datatypes, p[1], a[2], p[2], p[3]) = type_query.id

\* C13 witness: an angle looked up in the order opposite to its canonical
\* order was found
C13_Witness ==
    /\ type_query.kind = "angle" /\ type_query.args[1] > type_query.args[3]
    /\ type_query.id >= 0

\* C14: guess_molecules gives two atoms the same molecule id exactly when
\* bonds connect them, and the ids are dense, in order of first appearance
\* by ascending atom index, whatever the order of the bond list.
C14_MoleculeIds ==
    guess.done
        => /\ Len(guess.molids) = guess.natoms
           /\ \A a, b \in 0..guess.natoms - 1 :
                  (guess.molids[a + 1] = guess.molids[b + 1])
                      <=> (b \in Reach({a}, BondSet(guess.bonds)))
           /\ \A a \in 0..guess.natoms - 1 :
                  LET before == {guess.molids[b + 1] : b \in 0..a - 1}
                  IN  guess.molids[a + 1] \in before \cup {Cardinality(before)}

\* C14 witness: 4 atoms with the bonds (2,3) and (0,1), listed in that
\* order, got the ids 0, 0, 1, 1
C14_Witness ==
    /\ guess.done /\ guess.natoms = 4
    /\ guess.bonds = <<(<<2, 3>>), (<<0, 1>>)>>
    /\ guess.molids = <<0, 0, 1, 1>>

\* the p-th residue given to the linker holds the atom of that frame index
Holds(index) ==
    /\ ResidueOf(index) \in 1..Len(linker.residues)
    /\ NameOf(index) \in linker.residues[ResidueOf(index)].atoms

LinkerBonds == {linker.bonds[k] : k \in 1..Len(linker.bonds)}

IdOf(p) == linker.residues[p].id

\* C15: the linker raises no error, and every bond it adds goes from a
\* residue to a later residue whose numeric id is exactly one greater;
\* residues 5, 6, 7 holding C and N get the bonds 5-6 and 6-7, and residues
\* 5, 6, 9 only the bond 5-6.
C15_BackboneNextId ==
    linker.done
        => /\ ~linker.thrown
           /\ \A b \in LinkerBonds :
                  /\ ResidueOf(b[1]) < ResidueOf(b[2])
                  /\ IdOf(ResidueOf(b[1])) # <<>> /\ IdOf(ResidueOf(b[2])) # <<>>
                  /\ IdOf(ResidueOf(b[2]))[1] = IdOf(ResidueOf(b[1]))[1] + 1
           /\ \A x \in {7, 9} :
                  linker.residues = [p \in 1..3 |->
                        [id |-> <<(<<5, 6, x>>)[p]>>, atoms |-> {"N", "C"}, known |-> TRUE,
                         table |-> <<>>]]
                     => linker.bonds = <<(<<AtomIndex(1, "C"), AtomIndex(2, "N")>>)>>
                            \o (IF x = 7 THEN <<(<<AtomIndex(2, "C"), AtomIndex(3, "N")>>)>>
                                ELSE <<>>)

\* C20: every bond the linker adds joins the C of a residue to the N of a
\* later residue, or the O3' of a residue to the P of a later residue, both
\* atoms being held by their residues.
C20_BackboneComplementary ==
    linker.done
        => \A b \in LinkerBonds :
               /\ ResidueOf(b[1]) < ResidueOf(b[2])
               /\ Holds(b[1]) /\ Holds(b[2])
               /\ <<NameOf(b[1]), NameOf(b[2])>> \in {<<"C", "N">>, <<"O3'", "P">>}

\* the offsets table is in ascending order and not empty
Ascending(offsets) ==
    /\ offsets # <<>>
    /\ \A k \in 1..Len(offsets) - 1 : offsets[k] <= offsets[k + 1]

\* the frame read: the atoms numbered from..upto, the only TER, and the
\* atoms numbered again..final
TwoChains(from, upto, again, final) ==
    conect.nter = 1 /\ conect.ids = [k \in 1..(upto - from + 1) + (final - again + 1) |->
                    IF k <= upto - from + 1 THEN from + k - 1
                    ELSE again + k - (upto - from + 1) - 1]

\* C16 (as stated): the id x of a CONECT record resolves to x minus the
\* number of entries of the offsets table at or before x minus the first
\* entry, and in a file whose numbering restarts at 1 after atom 50, the id
\* 3 of the second chain resolves to the index 52.
C16_RestartRemap ==
    (conect.done /\ conect.query.thrown = "none" /\ Ascending(conect.atom_offsets_))
        => /\ conect.query.i = conect.query.x
                  - Cardinality({k \in DOMAIN conect.atom_offsets_ :
                                     conect.atom_offsets_[k] <= conect.query.x})
                  - conect.atom_offsets_[1]
           /\ (TwoChains(1, 50, 1, 3) /\ conect.query.x = 3) => conect.query.i = 52

\* C16 (amended): the id x of a CONECT record resolves to x minus the
\* number of entries of the offsets table strictly before x (the first
\* entry among them) minus the first entry, the table being in ascending
\* order; in a file numbered 1 to 50, with a TER numbered 51 and atoms
\* numbered on from 52, the id 54 resolves to the index 52; where the
\* numbering restarts at 1 after the TER, the id 3 resolves to the index 2.
C16_OffsetRemap ==
    (conect.done /\ conect.query.thrown = "none" /\ Ascending(conect.atom_offsets_))
        => /\ conect.query.i = conect.query.x
                  - Cardinality({k \in DOMAIN conect.atom_offsets_ :
                                     conect.atom_offsets_[k] < conect.query.x})
                  - conect.atom_offsets_[1]
           /\ (TwoChains(1, 50, 52, 54) /\ conect.query.x = 54) => conect.query.i = 52
           /\ (TwoChains(1, 50, 1, 3) /\ conect.query.x = 3) => conect.query.i = 2

\* C16 witness: the id 54 of a file numbered 1 to 50, TER 51, 52 to 54 was
\* resolved to the index 52
C16_Witness ==
    /\ conect.done /\ TwoChains(1, 50, 52, 54) /\ conect.atom_offsets_ = <<0, 51>>
    /\ conect.query.x = 54 /\ conect.query.i = 52 /\ conect.query.thrown = "none"

\* a bond has an atom whose serial number takes more than five columns
TooLarge(bond) == bond[1] + 1 > MaxSerial \/ bond[2] + 1 > MaxSerial

\* the bonds the CONECT records printed stand for
WrittenBonds ==
    {b \in writer.frame.bonds :
        \E l \in DOMAIN writer.pdb.conect :
            /\ writer.pdb.conect[l][1] = to_pdb_index(b[1]).text
            /\ \E k \in 2..Len(writer.pdb.conect[l]) :
                   writer.pdb.conect[l][k] = to_pdb_index(b[2]).text}

\* C17: a frame written with the PDB writer is read back without error,
\* with the same number of atoms and exactly the bonds the writer kept; a
\* bond with an atom whose serial number does not fit five columns is not
\* written and is not read back.
C17_BondRoundTrip ==
    writer.back.done
        => /\ writer.back.thrown = "none"
           /\ writer.back.natoms = writer.frame.natoms
           /\ writer.back.bonds = WrittenBonds
           /\ \A b \in writer.frame.bonds :
                  TooLarge(b) => (b \notin WrittenBonds /\ b \notin writer.back.bonds)

\* C19: a write of the PDB or of the GRO writer that prints "*****" for an
\* atom serial number sends at least one diagnostic.
C19_StarsAreReported ==
    /\ (writer.pdb.done /\ writer.pdb.stars) => writer.pdb.warnings >= 1
    /\ (writer.gro.done /\ writer.gro.stars) => writer.gro.warnings >= 1

\* the number of records `rec` of the file
CountOf(L, rec) == Cardinality({k \in DOMAIN L : L[k] = rec})

\* the step is a write() that returned
WriteReturned == last'.op = "write" /\ last'.thrown = "none" /\ mode = "w" /\ lines' # lines

\* C18: the k-th write() that returns appends to the file one block that
\* starts with the MODEL record numbered k and ends with ENDMDL; closing the
\* handle appends one END record when a frame was written and nothing when
\* none was; the file of a closed handle on which frames were written has as
\* many steps as frames were written.
C18_WriteSequence ==
    /\ [][WriteReturned
            => /\ SubSeq(lines', 1, Len(lines)) = lines
               /\ lines'[Len(lines) + 1] = ModelRecord(CountOf(lines, "ENDMDL") + 1)
               /\ lines'[Len(lines')] = "ENDMDL"
               /\ CountOf(lines', "ENDMDL") = CountOf(lines, "ENDMDL") + 1]_vars
    /\ [][(mode = "w" /\ mode' = "closed")
            => lines' = IF CountOf(lines, "ENDMDL") >= 1 THEN Append(lines, "END")
                        ELSE lines]_vars
    /\ []((mode = "closed" /\ counted >= 0 /\ CountOf(lines, "ENDMDL") >= 1)
            => counted = CountOf(lines, "ENDMDL"))

\* C30: a write() that fails with a format error appends no record to the
\* file and leaves the model counter, the written flag and the frame index
\* as they were.
C30_FailedWriteLeavesNoTrace ==
    [][(mode = "w" /\ last'.op = "write" /\ last'.thrown # "none")
          => /\ lines' = lines
             /\ models_' = models_
             /\ written_' = written_
             /\ steps_positions_' = steps_positions_]_vars

\* the residues the linker works on: PDBConnectivity::find knows their name
\* and they have an id
Linked(p) == linker.residues[p].known /\ linker.residues[p].id # <<>>

\* C21: in a residue with a bond template, HO5' is bonded to the O5' of the
\* same residue when the residue holds both, and no bond has the HO5' at
\* one end when the residue holds no O5'.
C21_HydroxylBond ==
    (linker.done /\ ~linker.thrown)
        => \A p \in 1..Len(linker.residues) :
               (Linked(p) /\ "HO5'" \in linker.residues[p].atoms)
                   => IF "O5'" \in linker.residues[p].atoms
                      THEN <<AtomIndex(p, "HO5'"), AtomIndex(p, "O5'")>> \in LinkerBonds
                      ELSE \A b \in LinkerBonds :
                               AtomIndex(p, "HO5'") \notin {b[1], b[2]}

\* the pairs of the template of the p-th residue
PairsOf(p) == {linker.residues[p].table[k] : k \in 1..Len(linker.residues[p].table)}

\* the names the template of the p-th residue has and the residue lacks
MissingOf(p) ==
    {link[i] : link \in PairsOf(p), i \in 1..2} \ linker.residues[p].atoms

LinkerWarnings == {linker.warnings[k] : k \in 1..Len(linker.warnings)}

\* C22: the bonds of a residue besides the one of its HO5' are those of the
\* pairs of its template whose two names the residue holds; each name of
\* the template the residue lacks is reported unless it starts with H or P,
\* is OXT or starts with OP, and no other name is.
C22_TemplateBonds ==
    (linker.done /\ ~linker.thrown)
        => \A p \in 1..Len(linker.residues) :
               (Linked(p) /\ linker.residues[p].table # <<>>)
                   => /\ {b \in LinkerBonds :
                             /\ p \in {ResidueOf(b[1]), ResidueOf(b[2])}
                             /\ AtomIndex(p, "HO5'") \notin {b[1], b[2]}}
                         = {<<AtomIndex(p, link[1]), AtomIndex(p, link[2])>> :
                               link \in {l \in PairsOf(p) :
                                            {l[1], l[2]} \subseteq linker.residues[p].atoms}}
                      /\ {w \in LinkerWarnings : w[1] = p}
                         = {<<p, name>> :
                               name \in {n \in MissingOf(p) : ~ExpectedOptional(n)}}

\* the ids of the atoms bonded that the CONECT record read carries
PartnersRead ==
    SelectSeq(<<conect.query.y, conect.query.z>>, LAMBDA v : v >= 0)

\* the bonds of a record of a frame with no TER whose ids are not below
\* the id `first` of the first atom: the id v stands for the atom v - first
RECURSIVE PlainBonds(_, _, _, _)
PlainBonds(x, partners, first, natoms) ==
    IF partners = <<>> THEN <<>>
    ELSE (IF x - first < natoms /\ Head(partners) - first < natoms
          THEN <<(<<x - first, Head(partners) - first>>)>> ELSE <<>>)
            \o PlainBonds(x, Tail(partners), first, natoms)

\* C23: a CONECT record read without error adds no bond with an atom
\* outside 0 .. natoms - 1; it warns exactly when it drops one of its
\* pairs; and the pairs after a dropped one are still added: in a frame
\* with no TER, the bonds are those of the pairs whose two ids are ids of
\* atoms of the frame, in the order of the record.
C23_ConectInFrame ==
    (conect.done /\ conect.query.thrown = "none")
        => /\ \A k \in DOMAIN conect.query.bonds :
                  /\ conect.query.bonds[k][1] \in 0..conect.natoms - 1
                  /\ conect.query.bonds[k][2] \in 0..conect.natoms - 1
           /\ conect.query.warned
                  <=> (Len(conect.query.bonds) < Len(PartnersRead))
           /\ (/\ conect.nter = 0 /\ conect.natoms > 0
               /\ conect.query.x >= conect.ids[1]
               /\ \A k \in DOMAIN PartnersRead :
                      PartnersRead[k] >= conect.ids[1] /\ PartnersRead[k] # conect.query.x)
                  => conect.query.bonds
                        = PlainBonds(conect.query.x, PartnersRead, conect.ids[1],
                                     conect.natoms)

\* C23 witness: of a record with two pairs in a frame of two atoms, the
\* first pair was dropped with a warning and the second one added
C23_Witness ==
    /\ conect.done /\ conect.query.thrown = "none" /\ conect.natoms = 2
    /\ conect.ids = <<1, 2>> /\ conect.nter = 0
    /\ conect.query.x = 2 /\ conect.query.y = 3 /\ conect.query.z = 1
    /\ conect.query.warned
    /\ conect.query.bonds = <<(<<1, 0>>)>>

\* the tag of the last of the first n ranges of secinfo_ that holds the
\* key, or "" when none does
RECURSIVE LastTag(_, _)
LastTag(key, n) ==
    IF n = 0 THEN ""
    ELSE IF /\ ~KeyLess(key, secondary.secinfo_[n][1])
            /\ ~KeyLess(secondary.secinfo_[n][2], key)
         THEN secondary.secinfo_[n][3]
         ELSE LastTag(key, n - 1)

\* C24: each residue of the frame read carries the tag of the last range,
\* among those recorded before its chain ended, whose start is not after
\* its key and whose end is not before it, and no tag when there is none.
C24_LastRangeWins ==
    (secondary.done /\ ~secondary.crashed)
        => \A k \in DOMAIN secondary.frame :
               secondary.frame[k].tag
                   = LastTag(secondary.frame[k].key, secondary.frame[k].seen)

\* the canonical tuples of the first n bonds and angles of the topology
BondTuples(n) ==
    {normalize_bond_type(topology.bonds[k][1], topology.bonds[k][2])
        : k \in 1..n}

AngleTuples(n) ==
    {normalize_angle_type(topology.angles[k][1], topology.angles[k][2],
                          topology.angles[k][3]) : k \in 1..n}

\* the id of the canonical tuple t of a bond or of an angle
BondId(t) == bond_type_id(datatypes, t[1], t[2])

AngleId(t) == angle_type_id(datatypes, t[1], t[2], t[3])

\* the bond or angle is the first of the topology with its canonical tuple
FirstOf(tuples(_), k) == tuples(k) # tuples(k - 1)

RECURSIVE ReadAll(_, _, _)
ReadAll(f, L, h) ==
    With(read(f, L, h), LAMBDA o :
    IF o.thrown # "none" THEN h.steps
    ELSE IF o.h.file.eof \/ TellG(o.h.file) >= Len(L) THEN o.h.steps
    ELSE ReadAll(f, L, o.h))

FreshHandle == [file |-> FreshStream, steps |-> <<>>, eof_found |-> FALSE]

\* C26: the offsets a full scan of a PDB file records on a fresh handle
\* are the offsets the sequential read() calls of a fresh handle append
\* until the end of the file.
C26_ScannerParserAgree ==
    [][(/\ format = "PDB" /\ mode = "r"
        /\ steps_positions_ = <<>> /\ file = FreshStream /\ ~eof_found_
        /\ last'.op = "nsteps" /\ last'.thrown = "none")
          => steps_positions_' = ReadAll(format, lines, FreshHandle)]_vars

\* the threads between the lock and the unlock of a call
InCall ==
    {t \in Threads :
        sink.pc[t] \in {"set_assign", "set_move", "set_unlock", "send_invoke", "send_unlock"}}

\* the deliveries of a message
DeliveriesOf(m) == {k \in DOMAIN sink.delivered : sink.delivered[k].message = m}

\* C27: at most one thread is between the lock and the unlock of
\* set_warning_callback or send_warning; each message given to
\* send_warning is delivered once at most, once exactly when the call has
\* returned, and to a callback that was installed, never to CALLBACK in
\* the middle of its replacement.
C27_SinkExclusive ==
    /\ Cardinality(InCall) <= 1
    /\ \A t \in InCall : sink.lock = t
    /\ \A k \in DOMAIN sink.delivered :
           /\ sink.delivered[k].message \in sink.sent
           /\ sink.delivered[k].to \in sink.installed
    /\ \A m \in sink.sent : Cardinality(DeliveriesOf(m)) <= 1
    /\ \A m \in sink.returned : Cardinality(DeliveriesOf(m)) = 1

\* C27 witness: a thread is replacing the callback, CALLBACK holding
\* neither the old nor the new one, while another thread, whose first
\* message was delivered to the old callback, waits in send_warning
C27_Witness ==
    /\ sink.pc[1] = "set_move" /\ sink.callback = "partial" /\ sink.lock = 1
    /\ sink.pc[2] = "send_lock" /\ sink.calls[2] = 2
    /\ sink.delivered = <<[message |-> <<2, 1>>, to |-> "cerr"]>>

\* C28: read_next returns no frame for which the Atoms, Bonds or
\* Velocities section was read and held fewer records than the header
\* declares.
C28_TruncatedSectionFails ==
    lammps.pc = "returned"
        => /\ lammps.atoms \in {-1, lammps.natoms_}
           /\ lammps.bonds \in {-1, lammps.nbonds_}
           /\ lammps.velocities \in {-1, lammps.natoms_}

\* C29: the switch of read_next is never entered with current_section_
\* equal to NOT_A_SECTION: the branch marked unreachable is never taken.
C29_DispatcherSection ==
    /\ lammps.pc # "unreachable"
    /\ (lammps.pc = "dispatch" /\ ~lammps.eof) => lammps.current_section_ # "NOT_A_SECTION"

====
